---- MODULE Spec2Model ----
(***************************************************************************)
(* fs-synchronizer: nodes that watch a local tree, publish every local     *)
(* change to a Redis store (content, hash, set of all files, one event),   *)
(* and replay the events of the other nodes on their own tree.             *)
(*                                                                         *)
(* The model follows the source files: the client (one pooled connection   *)
(* per command), the store (the four publish transactions and the reads),  *)
(* the local file-system adapter, the local watcher handler, the remote    *)
(* subscriber handler and the start-up synchronisation.  The Redis server  *)
(* is modelled by the documented meaning of the commands the client sends  *)
(* (MULTI queues, EXEC runs the queue without roll-back, SMOVE source      *)
(* destination member, RENAME fails on a missing key, PUBLISH delivers to  *)
(* the pattern subscriptions that match the channel).                      *)
(***************************************************************************)
EXTENDS Integers, Sequences, FiniteSets, TLC

VARIABLES
    broker,     \* the Redis server: keys, sets, connections, subscriptions, inboxes
    fs,         \* fs[n][p]: the bytes of file p on node n, or Absent
    phase,      \* phase[n]: "init" (before the start-up sweep) or "running"
    wq,         \* wq[n]: the debounced events waiting in the watcher's channel
    pool,       \* pool[n]: the idle connections of node n's pool, next one first
    wt,         \* wt[n]: the watcher thread inside a transactional block
    st,         \* st[n]: the subscriber thread inside the handling of one message
    lastPub,    \* lastPub[n]: what the last publish operation of node n did
    lastSub,    \* lastSub[n]: what the subscriber of node n did with its last message
    lastSweep,  \* lastSweep[n]: what the start-up sweep of node n did
    sent,       \* the command sent last to the server, and by whom
    budget      \* what the environment may still do (local changes, foreign messages, failures)

vars == <<broker, fs, phase, wq, pool, wt, st, lastPub, lastSub, lastSweep, sent, budget>>

(***************************************************************************)
(* Bounds of the model.                                                    *)
(***************************************************************************)
MaxLocalOps == 2
MaxForeign == 1
MaxFailures == 1
\* changes users make to the tree of the one node of SpecStore
MaxStoreOps == 3
\* changes users make to the tree of the one node of SpecSub
MaxSubOps == 1
MaxWatchOps == 2
MaxWire == 1
MaxOrder == 2

(***************************************************************************)
(* Nodes, paths, bytes.                                                    *)
(***************************************************************************)
Nodes == {1, 2}

\* the random u64 each node draws at start-up; distinct nodes, distinct ids
unique_id(n) == IF n = 1 THEN 7 ELSE 11

\* a third emitter: a node that is not one of Nodes
Emitters == {unique_id(n) : n \in Nodes} \cup {13}

Paths == {"/w/x", "/w/y"}

\* markers that are no byte string: a file that does not exist, a key that does not exist
Absent == <<-1>>
Nil == <<-2>>

\* what a path holds that is a directory
Directory == <<-4>>

\* a path whose bytes are no UTF-8 text
NonUtf8Path == "/w/<ff>"
AllPaths == Paths \cup {NonUtf8Path}

\* Path::to_string_lossy: never fails
to_string_lossy(path) == [ok |-> TRUE, val |-> path]

\* Path::to_str
to_str(path) ==
    IF path = NonUtf8Path THEN [ok |-> FALSE, val |-> ""] ELSE [ok |-> TRUE, val |-> path]

\* Path::is_dir
is_dir(f, path) == f[path] = Directory

\* the watched directory, a directory below it and a file path in that directory
Root == "/w"
ParentDir == "/w/d"
DeepPath == "/w/d/z"
TreePaths == Paths \cup {ParentDir, DeepPath}

\* Path::parent
parent(path) == IF path = DeepPath THEN ParentDir ELSE Root

\* Path::exists
exists(f, path) == path = Root \/ f[path] # Absent

\* the success of a fallible function
Ok(value) == [ok |-> TRUE, val |-> value]

\* file contents: short byte strings
Contents == {<<1>>, <<2>>}

(***************************************************************************)
(* Hashing, compression, decimal text.                                     *)
(***************************************************************************)
RECURSIVE HashBytes(_)
\* DefaultHasher::default(), write(bytes), finish(): one fixed function of the bytes
HashBytes(bytes) ==
    IF bytes = <<>> THEN 7
    ELSE (HashBytes(SubSeq(bytes, 1, Len(bytes) - 1)) * 31 + bytes[Len(bytes)]) % (2 ^ 20)

\* RedisStore::hash_content and LocalFSStore::hash_content
hash_content(content) == HashBytes(content)

\* snap::write::FrameEncoder fed by io::copy: nothing for no input, else the stream
\* identifier followed by the framed input
Compress(raw) == IF raw = <<>> THEN <<>> ELSE <<255>> \o raw

\* snap::read::FrameDecoder drained by io::copy
Decompress(bytes) ==
    IF bytes = <<>> THEN <<>>
    ELSE IF bytes[1] = 255 THEN SubSeq(bytes, 2, Len(bytes))
    ELSE <<-3>>

\* whether the decoder accepts the bytes
Decompressible(bytes) == bytes = <<>> \/ bytes[1] = 255

RECURSIVE Decimal(_)
\* u64::to_string().as_bytes()
Decimal(n) ==
    IF n < 10 THEN <<48 + n>>
    ELSE Decimal(n \div 10) \o <<48 + (n % 10)>>

RECURSIVE ParseDigits(_, _)
ParseDigits(bytes, acc) ==
    IF bytes = <<>> THEN acc
    ELSE ParseDigits(Tail(bytes), acc * 10 + (bytes[1] - 48))

\* String::from_utf8_lossy(..).parse::<u64>(): an error for no digits or a non-digit
ParseU64(bytes) ==
    IF bytes # <<>> /\ Len(bytes) <= 7 /\ \A i \in 1..Len(bytes) : bytes[i] \in 48..57
    THEN Ok(ParseDigits(bytes, 0))
    ELSE [ok |-> FALSE, val |-> 0]

(***************************************************************************)
(* Keys, channels, payloads.                                               *)
(***************************************************************************)
SET_OF_ALL_FILES_NAME == "all_files"

to_hash_key(path) == <<"hash:", path>>
to_content_key(path) == <<"content:", path>>

Keys == {to_hash_key(p) : p \in Paths} \cup {to_content_key(p) : p \in Paths}
SetKeys == {SET_OF_ALL_FILES_NAME} \cup Paths

\* a channel name is its fixed prefix and the rest
FILE_EVENT == <<"file_event">>
FILE_NEW == <<"files:", "new">>
FILE_MODIFIED == <<"files:", "modified">>
FILE_RENAMED == <<"files:", "renamed">>
FILE_REMOVED == <<"files:", "removed">>
Channels == {FILE_EVENT, FILE_NEW, FILE_MODIFIED, FILE_RENAMED, FILE_REMOVED}

\* the pattern of psubscribe("files:*")
SubscribedPattern == <<"files:", "*">>

\* Redis glob matching of a channel against a pattern prefix*
PatternMatches(pattern, channel) ==
    /\ Len(channel) = 2
    /\ channel[1] = pattern[1]

\* the payloads the store builds
NewFile(emitter_id, hash, path) ==
    [variant |-> "NewFile", emitter |-> emitter_id, hash |-> hash, path |-> path, path2 |-> ""]
ModifiedFile(emitter_id, hash, path) ==
    [variant |-> "ModifiedFile", emitter |-> emitter_id, hash |-> hash, path |-> path, path2 |-> ""]
RemovedFile(emitter_id, path) ==
    [variant |-> "RemovedFile", emitter |-> emitter_id, hash |-> 0, path |-> path, path2 |-> ""]
RenamedFile(emitter_id, old_path, new_path) ==
    [variant |-> "RenamedFile", emitter |-> emitter_id, hash |-> 0, path |-> old_path, path2 |-> new_path]

get_emitter_id(payload) == payload.emitter

\* rmp_serde::to_vec: the variant's index, then its fields
\* an encoding that does not tell the variants with a hash apart
encode_untagged(payload) ==
    CASE payload.variant \in {"NewFile", "ModifiedFile"} ->
            <<0, payload.emitter, payload.hash, payload.path>>
      [] payload.variant = "RemovedFile" -> <<2, payload.emitter, payload.path>>
      [] OTHER -> <<3, payload.emitter, payload.path, payload.path2>>

\* rmp_serde::to_vec: the variant's index, then its fields in order
Encode(payload) ==
    CASE payload.variant = "NewFile" -> <<0, payload.emitter, payload.hash, payload.path>>
      [] payload.variant = "ModifiedFile" -> <<1, payload.emitter, payload.hash, payload.path>>
      [] payload.variant = "RemovedFile" -> <<2, payload.emitter, payload.path>>
      [] OTHER -> <<3, payload.emitter, payload.path, payload.path2>>

NoPayload == [variant |-> "none", emitter |-> 0, hash |-> 0, path |-> "", path2 |-> ""]

\* rmp_serde::from_slice: an error for bytes that are no payload
Decode(bytes) ==
    IF Len(bytes) = 4 /\ bytes[1] = 0 THEN Ok(NewFile(bytes[2], bytes[3], bytes[4]))
    ELSE IF Len(bytes) = 4 /\ bytes[1] = 1 THEN Ok(ModifiedFile(bytes[2], bytes[3], bytes[4]))
    ELSE IF Len(bytes) = 3 /\ bytes[1] = 2 THEN Ok(RemovedFile(bytes[2], bytes[3]))
    ELSE IF Len(bytes) = 4 /\ bytes[1] = 3 THEN Ok(RenamedFile(bytes[2], bytes[3], bytes[4]))
    ELSE [ok |-> FALSE, val |-> NoPayload]

(***************************************************************************)
(* The Redis server.                                                       *)
(*   kv     the string keys (hash:<path>, content:<path>), Nil when absent *)
(*   sets   the set keys: all_files, and any key SMOVE names as destination*)
(*   conns  per connection: inside MULTI or not, and the queued commands   *)
(*   psubs  per node: the patterns its pub/sub connection subscribed       *)
(*   inbox  per node: the messages delivered and not yet read              *)
(***************************************************************************)
ConnsOf(n) == {n * 10, n * 10 + 1, n * 10 + 2}
ConnIds == UNION {ConnsOf(n) : n \in Nodes}

Cmd(op, a, b, c) == [op |-> op, a |-> a, b |-> b, c |-> c]

CmdSet(key, value) == Cmd("SET", key, value, <<>>)
CmdGet(key) == Cmd("GET", key, <<>>, <<>>)
CmdRename(old_key, new_key) == Cmd("RENAME", old_key, new_key, <<>>)
CmdDel(key) == Cmd("DEL", key, <<>>, <<>>)
CmdPublish(channel, message) == Cmd("PUBLISH", channel, Encode(message), <<>>)
CmdSadd(set, member_key) == Cmd("SADD", set, member_key, <<>>)
CmdSrem(set, member_key) == Cmd("SREM", set, member_key, <<>>)
\* cmd("SMOVE").arg(set).arg(old_member_key).arg(new_member_key)
CmdSmove(set, old_member_key, new_member_key) == Cmd("SMOVE", set, old_member_key, new_member_key)
CmdMulti == Cmd("MULTI", <<>>, <<>>, <<>>)
CmdExec == Cmd("EXEC", <<>>, <<>>, <<>>)
CmdDiscard == Cmd("DISCARD", <<>>, <<>>, <<>>)

\* what the server answers: ok is FALSE for an error reply, queued for +QUEUED
Reply(b, ok, val) == [b |-> b, ok |-> ok, queued |-> FALSE, val |-> val]

\* PUBLISH channel message: one copy to every pattern subscription the channel matches
Deliver(b, channel, message) ==
    [b EXCEPT !.inbox = [n \in Nodes |->
        IF \E pattern \in b.psubs[n] : PatternMatches(pattern, channel)
        THEN Append(b.inbox[n], [channel |-> channel, bytes |-> message])
        ELSE b.inbox[n]]]

\* one data command run by the server
Apply(b, cmd) ==
    CASE cmd.op = "SET" -> Reply([b EXCEPT !.kv[cmd.a] = cmd.b], TRUE, <<>>)
      [] cmd.op = "GET" -> Reply(b, TRUE, b.kv[cmd.a])
      [] cmd.op = "RENAME" ->
            IF b.kv[cmd.a] = Nil THEN Reply(b, FALSE, <<>>)
            ELSE IF cmd.a = cmd.b THEN Reply(b, TRUE, <<>>)
            ELSE Reply([b EXCEPT !.kv[cmd.b] = b.kv[cmd.a], !.kv[cmd.a] = Nil], TRUE, <<>>)
      [] cmd.op = "DEL" -> Reply([b EXCEPT !.kv[cmd.a] = Nil], TRUE, <<>>)
      [] cmd.op = "SADD" -> Reply([b EXCEPT !.sets[cmd.a] = @ \cup {cmd.b}], TRUE, <<>>)
      [] cmd.op = "SREM" -> Reply([b EXCEPT !.sets[cmd.a] = @ \ {cmd.b}], TRUE, <<>>)
      [] cmd.op = "SMOVE" ->
            \* SMOVE source destination member
            IF cmd.c \in b.sets[cmd.a] /\ cmd.a # cmd.b
            THEN Reply([b EXCEPT !.sets[cmd.a] = @ \ {cmd.c}, !.sets[cmd.b] = @ \cup {cmd.c}],
                       TRUE, <<>>)
            ELSE Reply(b, TRUE, <<>>)
      [] cmd.op = "PUBLISH" -> Reply(Deliver(b, cmd.a, cmd.b), TRUE, <<>>)
      [] cmd.op = "SMEMBERS" -> Reply(b, TRUE, b.sets[cmd.a])
      [] cmd.op = "PSUBSCRIBE" -> Reply([b EXCEPT !.psubs[cmd.a] = @ \cup {cmd.b}], TRUE, <<>>)
      [] OTHER -> Reply(b, FALSE, <<>>)

RECURSIVE ApplyAll(_, _, _)
\* EXEC: every queued command is run, an error of one does not stop or undo the others
ApplyAll(b, queue, ok) ==
    IF queue = <<>> THEN Reply(b, ok, <<>>)
    ELSE LET rest(r) == ApplyAll(r.b, Tail(queue), ok /\ r.ok)
         IN  rest(Apply(b, Head(queue)))

IdleConn == [multi |-> FALSE, queue |-> <<>>]

\* one command arriving on connection c
ServerExec(b, c, cmd) ==
    CASE cmd.op = "MULTI" ->
            IF b.conns[c].multi THEN Reply(b, FALSE, <<>>)
            ELSE Reply([b EXCEPT !.conns[c].multi = TRUE], TRUE, <<>>)
      [] cmd.op = "EXEC" ->
            IF ~b.conns[c].multi THEN Reply(b, FALSE, <<>>)
            ELSE ApplyAll([b EXCEPT !.conns[c] = IdleConn], b.conns[c].queue, TRUE)
      [] cmd.op = "DISCARD" ->
            IF ~b.conns[c].multi THEN Reply(b, FALSE, <<>>)
            ELSE Reply([b EXCEPT !.conns[c] = IdleConn], TRUE, <<>>)
      [] OTHER ->
            IF b.conns[c].multi
            THEN [b |-> [b EXCEPT !.conns[c].queue = Append(@, cmd)],
                  ok |-> TRUE, queued |-> TRUE, val |-> <<>>]
            ELSE Apply(b, cmd)

\* redis::cmd(..).query(&mut *connection): the command is sent on c unless the
\* connection fails, and the reply comes back
Query(b, c, cmd, fail) ==
    IF fail THEN Reply(b, FALSE, <<>>) ELSE ServerExec(b, c, cmd)

EmptyBroker ==
    [kv |-> [k \in Keys |-> Nil],
     sets |-> [k \in SetKeys |-> {}],
     conns |-> [c \in ConnIds |-> IdleConn],
     psubs |-> [n \in Nodes |-> {}],
     inbox |-> [n \in Nodes |-> <<>>]]

(***************************************************************************)
(* The client: RedisClient.                                                *)
(***************************************************************************)
\* take_connection: the pool hands out the connection returned last
take_connection(idle) == Head(idle)

\* RedisClient::get: the bytes of the key; a missing key reads as no bytes, a
\* +QUEUED reply is no byte string and is an error
\* a read that takes the key away from the server
get_and_delete(b, c, key, fail) ==
    LET bytes(r) ==
            [b |-> [r.b EXCEPT !.kv[key] = Nil], ok |-> r.ok /\ ~r.queued,
             val |-> IF r.ok /\ ~r.queued /\ r.val # Nil THEN r.val ELSE <<>>]
    IN  bytes(Query(b, c, CmdGet(key), fail))

get(b, c, key, fail) ==
    LET bytes(r) ==
            [b |-> r.b, ok |-> r.ok /\ ~r.queued,
             val |-> IF r.ok /\ ~r.queued /\ r.val # Nil THEN r.val ELSE <<>>]
    IN  bytes(Query(b, c, CmdGet(key), fail))

\* in_transaction: where the block is, the commands of the closure still to send,
\* and how the block ended
TxnStart(commands) == [phase |-> "multi", rest |-> commands, result |-> "none"]
TxnIdle == [phase |-> "done", rest |-> <<>>, result |-> "none"]

\* the command in_transaction sends next
NextCmd(ts) ==
    CASE ts.phase = "multi" -> CmdMulti
      [] ts.phase = "body" -> Head(ts.rest)
      [] ts.phase = "discard" -> CmdDiscard
      [] OTHER -> CmdExec

\* an in_transaction that goes on to EXEC whatever its commands returned
exec_regardless(ts, ok) ==
    CASE ts.phase = "multi" ->
            IF ~ok THEN [ts EXCEPT !.phase = "done", !.result = "multi_error"]
            ELSE [ts EXCEPT !.phase = IF ts.rest = <<>> THEN "exec" ELSE "body"]
      [] ts.phase = "body" ->
            [ts EXCEPT !.rest = Tail(@),
                       !.phase = IF Tail(ts.rest) = <<>> THEN "exec" ELSE "body"]
      [] OTHER ->
            [ts EXCEPT !.phase = "done", !.result = IF ok THEN "ok" ELSE "exec_error"]

\* in_transaction after the reply to NextCmd
After(ts, ok) ==
    CASE ts.phase = "multi" ->
            IF ~ok THEN [ts EXCEPT !.phase = "done", !.result = "multi_error"]
            ELSE [ts EXCEPT !.phase = IF ts.rest = <<>> THEN "exec" ELSE "body"]
      [] ts.phase = "body" ->
            IF ~ok THEN [ts EXCEPT !.phase = "discard"]
            ELSE [ts EXCEPT !.rest = Tail(@),
                            !.phase = IF Tail(ts.rest) = <<>> THEN "exec" ELSE "body"]
      [] ts.phase = "discard" ->
            [ts EXCEPT !.phase = "done",
                       !.result = IF ok THEN "cancelled" ELSE "discard_error"]
      [] OTHER ->
            [ts EXCEPT !.phase = "done", !.result = IF ok THEN "ok" ELSE "exec_error"]

RECURSIVE RunTxn(_, _, _, _)
\* in_transaction run to its end on connection c with no other thread in between;
\* failAt = k > 0 makes the k-th command sent fail
RunTxn(b, c, ts, failAt) ==
    IF ts.phase = "done" THEN [b |-> b, result |-> ts.result]
    ELSE LET rest(r) == RunTxn(r.b, c, After(ts, r.ok), failAt - 1)
         IN  rest(Query(b, c, NextCmd(ts), failAt = 1))

(***************************************************************************)
(* The local file-system adapter: LocalFSStore.  f is one node's tree.     *)
(***************************************************************************)
\* local_hash: fs::read, then the hash of the raw bytes
local_hash(f, path) ==
    IF f[path] \in {Absent, Directory} THEN [ok |-> FALSE, val |-> 0] ELSE Ok(HashBytes(f[path]))

\* local_file_content_compressed: the compressed bytes and local_hash
local_file_content_compressed(f, path) ==
    IF f[path] \in {Absent, Directory} THEN [ok |-> FALSE, content |-> <<>>, hash |-> 0]
    ELSE [ok |-> TRUE, content |-> Compress(f[path]), hash |-> local_hash(f, path).val]

\* an ensure_directory_exists that creates nothing
assume_directory_exists(f, path) == [f |-> f, ok |-> TRUE]

\* ensure_directory_exists: the parent of path is created when nothing is there
ensure_directory_exists(f, path) ==
    IF exists(f, parent(path)) THEN [f |-> f, ok |-> TRUE]
    ELSE [f |-> [f EXCEPT ![parent(path)] = Directory], ok |-> TRUE]

\* write_file: the parent directories, then fs::write, which fails on a
\* directory and below a parent that is no directory
write_file(f, path, contents, fail) ==
    LET write(e) ==
            IF \/ fail
               \/ ~e.ok
               \/ is_dir(e.f, path)
               \/ ~(parent(path) = Root \/ is_dir(e.f, parent(path)))
            THEN [f |-> e.f, ok |-> FALSE]
            ELSE [f |-> [e.f EXCEPT ![path] = contents], ok |-> TRUE]
    IN  write(ensure_directory_exists(f, path))

\* remove_file: fs::remove_file fails on a missing file
remove_file(f, path) ==
    IF f[path] \in {Absent, Directory} THEN [f |-> f, ok |-> FALSE]
    ELSE [f |-> [f EXCEPT ![path] = Absent], ok |-> TRUE]

\* rename_file: the parent directories of new, then fs::rename
rename_file(f, old, new) ==
    LET rename(e) ==
            IF ~e.ok \/ e.f[old] = Absent THEN [f |-> e.f, ok |-> FALSE]
            ELSE IF ~(parent(new) = Root \/ is_dir(e.f, parent(new)))
            THEN [f |-> e.f, ok |-> FALSE]
            ELSE IF old = new THEN [f |-> e.f, ok |-> TRUE]
            ELSE IF e.f[new] # Absent /\ is_dir(e.f, old) # is_dir(e.f, new)
            THEN [f |-> e.f, ok |-> FALSE]
            ELSE [f |-> [e.f EXCEPT ![new] = e.f[old], ![old] = Absent], ok |-> TRUE]
    IN  rename(ensure_directory_exists(f, new))

(***************************************************************************)
(* The store: RedisStore.                                                  *)
(***************************************************************************)
\* get_local_file_content: the file read through the compressor
get_local_file_content(f, path) ==
    IF f[path] \in {Absent, Directory} THEN [ok |-> FALSE, val |-> <<>>] ELSE Ok(Compress(f[path]))

NoCommands == [ok |-> FALSE, cmds |-> <<>>, payload |-> NoPayload]

\* a new_file that announces the hash of the raw bytes and stores another
new_file_local_hash(f, emitter_id, path) ==
    LET content == get_local_file_content(f, path)
        hash == hash_content(content.val)
        publish_value == NewFile(emitter_id, local_hash(f, path).val, path)
    IN  IF ~content.ok \/ ~to_str(path).ok THEN NoCommands
        ELSE [ok |-> TRUE, payload |-> publish_value,
              cmds |-> << CmdSet(to_hash_key(path), Decimal(hash)),
                          CmdSet(to_content_key(path), content.val),
                          CmdSadd(SET_OF_ALL_FILES_NAME, path),
                          CmdPublish(FILE_EVENT, publish_value) >>]

\* new_file: the content is read and compressed, the hash is taken of `content`,
\* then hash, content, membership and the event in one transactional block
new_file(f, emitter_id, path) ==
    LET content == get_local_file_content(f, path)
        hash == hash_content(content.val)
        publish_value == NewFile(emitter_id, hash, path)
    IN  IF ~content.ok \/ ~to_str(path).ok THEN NoCommands
        ELSE [ok |-> TRUE, payload |-> publish_value,
              cmds |-> << CmdSet(to_hash_key(path), Decimal(hash)),
                          CmdSet(to_content_key(path), content.val),
                          CmdSadd(SET_OF_ALL_FILES_NAME, path),
                          CmdPublish(FILE_EVENT, publish_value) >>]

\* a modified_file that takes every write for published already
modified_file_deduplicated(f, emitter_id, path) == NoCommands

\* modified_file: as new_file, without the SADD
modified_file(f, emitter_id, path) ==
    LET content == get_local_file_content(f, path)
        hash == hash_content(content.val)
        publish_value == ModifiedFile(emitter_id, hash, path)
    IN  IF ~content.ok \/ ~to_str(path).ok THEN NoCommands
        ELSE [ok |-> TRUE, payload |-> publish_value,
              cmds |-> << CmdSet(to_hash_key(path), Decimal(hash)),
                          CmdSet(to_content_key(path), content.val),
                          CmdPublish(FILE_EVENT, publish_value) >>]

\* renamed_file
renamed_file(emitter_id, old_path, new_path) ==
    LET publish_value == RenamedFile(emitter_id, old_path, new_path)
    IN  IF ~to_str(old_path).ok \/ ~to_str(new_path).ok THEN NoCommands
        ELSE
        [ok |-> TRUE, payload |-> publish_value,
         cmds |-> << CmdRename(to_hash_key(old_path), to_hash_key(new_path)),
                     CmdRename(to_content_key(old_path), to_content_key(new_path)),
                     CmdSmove(SET_OF_ALL_FILES_NAME, old_path, new_path),
                     CmdPublish(FILE_EVENT, publish_value) >>]

\* removed_file
removed_file(emitter_id, path) ==
    LET publish_value == RemovedFile(emitter_id, path)
    IN  IF ~to_str(path).ok THEN NoCommands
        ELSE
        [ok |-> TRUE, payload |-> publish_value,
         cmds |-> << CmdDel(to_hash_key(path)),
                     CmdDel(to_content_key(path)),
                     CmdSrem(SET_OF_ALL_FILES_NAME, path),
                     CmdPublish(FILE_EVENT, publish_value) >>]

\* a fetch that removes the content it has read from the server
take_remote_file_content(b, c, path, fail) ==
    LET decoded(r) ==
            [b |-> Apply(r.b, CmdDel(to_content_key(path))).b,
             ok |-> r.ok /\ Decompressible(r.val),
             val |-> IF r.ok /\ Decompressible(r.val) THEN Decompress(r.val) ELSE <<>>]
    IN  decoded(get(b, c, to_content_key(path), fail))

\* get_remote_file_content: GET content:<path>, then the decoder
get_remote_file_content(b, c, path, fail) ==
    LET decoded(r) ==
            [b |-> r.b, ok |-> r.ok /\ Decompressible(r.val),
             val |-> IF r.ok /\ Decompressible(r.val) THEN Decompress(r.val) ELSE <<>>]
    IN  decoded(get(b, c, to_content_key(path), fail))

\* get_remote_file_hash: GET hash:<path>, then the decimal parse
get_remote_file_hash(b, c, path, fail) ==
    LET parsed(r, hash) ==
            [b |-> r.b, ok |-> r.ok /\ hash.ok, val |-> IF r.ok THEN hash.val ELSE 0]
        read(r) == parsed(r, ParseU64(r.val))
    IN  read(get(b, c, to_hash_key(path), fail))

\* get_all_remote_files: SMEMBERS all_files
get_all_remote_files(b, c, fail) ==
    LET members(r) ==
            [b |-> r.b, ok |-> r.ok /\ ~r.queued,
             val |-> IF r.ok /\ ~r.queued THEN r.val ELSE {}]
    IN  members(Query(b, c, Cmd("SMEMBERS", SET_OF_ALL_FILES_NAME, <<>>, <<>>), fail))

(***************************************************************************)
(* The local watcher: LocalFilesEventHandler.                              *)
(***************************************************************************)
\* a debounced event of the notify crate; origin records who changed the file
Event(kind, path, path2, origin) ==
    [kind |-> kind, path |-> path, path2 |-> path2, origin |-> origin]

\* the events handle_event answers with Ok(()) at once
Notices == {"NoticeWrite", "NoticeRemove", "Chmod", "Rescan"}

\* a watcher that takes the notice of a change for the removal of the path
notice_as_remove(unique, path) ==
    IF path = "" THEN NoCommands ELSE removed_file(unique, path)

\* the arms NoticeWrite, NoticeRemove, Chmod and Rescan: do nothing
notice(unique, path) == NoCommands

\* a watcher that ignores every event
IgnoreEvent(f, unique, event) == NoCommands

\* handle_event up to the transactional block: run says whether a block is
\* entered, cmds are the commands of its closure
WatcherPlan(f, unique, event) ==
    CASE event.kind = "Create" ->
            IF is_dir(f, event.path) THEN NoCommands
            ELSE IF ~local_file_content_compressed(f, event.path).ok THEN NoCommands
            ELSE new_file(f, unique, event.path)
      [] event.kind = "Write" ->
            IF is_dir(f, event.path) THEN NoCommands
            ELSE IF ~local_file_content_compressed(f, event.path).ok THEN NoCommands
            ELSE modified_file(f, unique, event.path)
      [] event.kind = "Remove" -> removed_file(unique, event.path)
      [] event.kind = "Rename" -> renamed_file(unique, event.path, event.path2)
      [] event.kind \in Notices -> notice(unique, event.path)
      [] OTHER -> NoCommands

(***************************************************************************)
(* The remote subscriber: RemoteFilesEventHandler.                         *)
(***************************************************************************)
FileEvent(kind, path, hash, path2) ==
    [ok |-> TRUE, kind |-> kind, path |-> path, hash |-> hash, path2 |-> path2]
NoFileEvent == [ok |-> FALSE, kind |-> "none", path |-> "", hash |-> 0, path2 |-> ""]

\* FileEvents::from_str_and_payload: the channel name decides the event, the
\* payload must have the fields of that event
from_str_and_payload(kind, payload) ==
    CASE kind = FILE_NEW /\ payload.variant \in {"NewFile", "ModifiedFile"} ->
            FileEvent("New", payload.path, payload.hash, "")
      [] kind = FILE_MODIFIED /\ payload.variant \in {"NewFile", "ModifiedFile"} ->
            FileEvent("Modified", payload.path, payload.hash, "")
      [] kind = FILE_REMOVED /\ payload.variant = "RemovedFile" ->
            FileEvent("Removed", payload.path, 0, "")
      [] kind = FILE_RENAMED /\ payload.variant = "RenamedFile" ->
            FileEvent("Renamed", payload.path, 0, payload.path2)
      [] OTHER -> NoFileEvent

\* a subscriber without the self-echo test
NeverSelfEcho(payload, unique) == FALSE

\* the self-echo test of start_watching
IsSelfEcho(payload, unique) == get_emitter_id(payload) = unique

\* a subscriber that fetches the content whatever the local hash is
fetch_without_compare(f, unique, msg) ==
    LET compare(event, local) ==
            IF ~event.ok THEN "convert_error"
            ELSE IF event.kind \in {"New", "Modified"} THEN
                    IF ~local.ok THEN "hash_error"
                    ELSE IF local.val = event.hash THEN "fetch"
                    ELSE "fetch"
            ELSE IF event.kind = "Removed" THEN "remove"
            ELSE "rename"
        convert(event) == compare(event, local_hash(f, event.path))
        decide(decoded) ==
            IF ~decoded.ok THEN "decode_error"
            ELSE IF IsSelfEcho(decoded.val, unique) THEN "self"
            ELSE convert(from_str_and_payload(msg.channel, decoded.val))
    IN  decide(Decode(msg.bytes))

\* start_watching and handle_event for one message, up to the first access to the
\* store or the local tree: what is to be done with the message
SubscriberDecide(f, unique, msg) ==
    LET compare(event, local) ==
            IF ~event.ok THEN "convert_error"
            ELSE IF event.kind \in {"New", "Modified"} THEN
                    IF ~local.ok THEN "hash_error"
                    ELSE IF local.val = event.hash THEN "match"
                    ELSE "fetch"
            ELSE IF event.kind = "Removed" THEN "remove"
            ELSE "rename"
        convert(event) == compare(event, local_hash(f, event.path))
        decide(decoded) ==
            IF ~decoded.ok THEN "decode_error"
            ELSE IF IsSelfEcho(decoded.val, unique) THEN "self"
            ELSE convert(from_str_and_payload(msg.channel, decoded.val))
    IN  decide(Decode(msg.bytes))

\* the event a decision is about
SubscriberEvent(msg) ==
    LET convert(decoded) == from_str_and_payload(msg.channel, decoded.val)
    IN  convert(Decode(msg.bytes))

\* the event the watcher of a node sees when a file of its tree is written:
\* Create for a file that was not there, Write otherwise
WriteEvent(before, path, origin) ==
    IF before = Absent THEN Event("Create", path, "", origin)
    ELSE Event("Write", path, "", origin)

\* handle_event from the first access to the store or the local tree on: the
\* decision carried out on connection c and tree f
SubscriberApply(b, c, f, unique, msg, failGet, failWrite) ==
    LET NoChange(outcome) == [b |-> b, f |-> f, outcome |-> outcome, events |-> <<>>]
        written(event, r, w) ==
            IF ~r.ok THEN [b |-> r.b, f |-> f, outcome |-> "fetch_error", events |-> <<>>]
            ELSE IF ~w.ok
            THEN [b |-> r.b, f |-> w.f, outcome |-> "apply_error", events |-> <<>>]
            ELSE [b |-> r.b, f |-> w.f, outcome |-> "written",
                  events |-> <<WriteEvent(f[event.path], event.path, "subscriber")>>]
        fetched(event, r) == written(event, r, write_file(f, event.path, r.val, failWrite))
        changed(w, outcome, event) ==
            IF ~w.ok THEN [b |-> b, f |-> w.f, outcome |-> "apply_error", events |-> <<>>]
            ELSE [b |-> b, f |-> w.f, outcome |-> outcome, events |-> <<event>>]
        apply(decision, event) ==
            CASE decision = "fetch" ->
                    fetched(event, get_remote_file_content(b, c, event.path, failGet))
              [] decision = "remove" ->
                    changed(remove_file(f, event.path), "removed",
                            Event("Remove", event.path, "", "subscriber"))
              [] decision = "rename" ->
                    changed(rename_file(f, event.path, event.path2), "renamed",
                            Event("Rename", event.path, event.path2, "subscriber"))
              [] OTHER -> NoChange(decision)
    IN  apply(SubscriberDecide(f, unique, msg), SubscriberEvent(msg))

(***************************************************************************)
(* The start-up sweep: synchronize_local_files_with_remote.                *)
(***************************************************************************)
RECURSIVE SweepPaths(_, _, _, _, _, _, _, _)
\* the loop over the remote files; failHash, failContent and failWrite are the
\* paths whose hash read, content read or local write fails
SweepPaths(b, c, f, todo, failHash, failContent, failWrite, wrote) ==
    IF todo = {} THEN [b |-> b, f |-> f, wrote |-> wrote]
    ELSE LET path == CHOOSE p \in todo : TRUE
             rest(b2, f2, wrote2) ==
                 SweepPaths(b2, c, f2, todo \ {path}, failHash, failContent, failWrite, wrote2)
             \* the content was read: write it
             write(rc, w) ==
                 IF rc.ok /\ w.ok THEN rest(rc.b, w.f, wrote \cup {path})
                 ELSE rest(rc.b, IF rc.ok THEN w.f ELSE f, wrote)
             fetch(rc) == write(rc, write_file(f, path, rc.val, path \in failWrite))
             \* the two hashes, with 0 and 1 for the one that could not be read
             compare(rh, remote_hash, local) ==
                 IF remote_hash = local THEN rest(rh.b, f, wrote)
                 ELSE fetch(get_remote_file_content(rh.b, c, path, path \in failContent))
             hashes(rh, lh) ==
                 compare(rh, IF rh.ok THEN rh.val ELSE 0, IF lh.ok THEN lh.val ELSE 1)
         IN  hashes(get_remote_file_hash(b, c, path, path \in failHash), local_hash(f, path))

\* synchronize_local_files_with_remote
\* a sweep that reports the failure of one file as its own
sweep_fatal_per_file(b, c, f, failList, failHash, failContent, failWrite) ==
    LET swept(r, listed) ==
            [b |-> r.b, f |-> r.f, ok |-> failContent = {} /\ failWrite = {},
             listed |-> listed, wrote |-> r.wrote]
        sweep(remote_files) ==
            IF ~remote_files.ok
            THEN [b |-> remote_files.b, f |-> f, ok |-> FALSE, listed |-> {}, wrote |-> {}]
            ELSE swept(SweepPaths(remote_files.b, c, f, remote_files.val,
                                  failHash, failContent, failWrite, {}),
                       remote_files.val)
    IN  sweep(get_all_remote_files(b, c, failList))

synchronize_local_files_with_remote(b, c, f, failList, failHash, failContent, failWrite) ==
    LET swept(r, listed) ==
            [b |-> r.b, f |-> r.f, ok |-> TRUE, listed |-> listed, wrote |-> r.wrote]
        sweep(remote_files) ==
            IF ~remote_files.ok
            THEN [b |-> remote_files.b, f |-> f, ok |-> FALSE, listed |-> {}, wrote |-> {}]
            ELSE swept(SweepPaths(remote_files.b, c, f, remote_files.val,
                                  failHash, failContent, failWrite, {}),
                       remote_files.val)
    IN  sweep(get_all_remote_files(b, c, failList))

(***************************************************************************)
(* The state.                                                              *)
(***************************************************************************)
\* the part of the store the publish operations maintain
StoreView(b) == [kv |-> b.kv, all_files |-> b.sets[SET_OF_ALL_FILES_NAME]]

NoPub ==
    [kind |-> "none", path |-> "", origin |-> "none", result |-> "none",
     payload |-> NoPayload, raw |-> Absent, changed |-> FALSE, delivered |-> FALSE]
NoSub ==
    [outcome |-> "none", channel |-> FILE_EVENT, bytes |-> <<>>, was |-> Absent,
     made |-> FALSE]
\* fresh: no user has changed a file of any tree since this sweep
NoSweep == [state |-> "none", listed |-> {}, wrote |-> {}, fresh |-> FALSE]
\* a worker thread between two commands: the block it is in, the connection it
\* took from the pool (0 for none), the connection its MULTI was sent on (0 when
\* no block is open), the server as it was when the operation began, and the
\* payload and the file bytes the operation read
IdleThread ==
    [ts |-> TxnIdle, held |-> 0, lease |-> 0, start |-> EmptyBroker,
     payload |-> NoPayload, raw |-> Absent, log |-> <<>>,
     read |-> [pending |-> FALSE, done |-> FALSE, content |-> <<>>, hash |-> 0]]
\* the command sent last, by whom, on which connection, and the connection the
\* sender's node had an open MULTI on at that moment (0 for none)
NoSent == [by |-> "none", node |-> 0, conn |-> 0, op |-> "none", lease |-> 0]

\* nothing published yet, empty trees, no node started; localOps is the number of
\* changes users will make
InitWith(localOps) ==
    /\ broker = EmptyBroker
    /\ fs = [n \in Nodes |-> [p \in Paths |-> Absent]]
    /\ phase = [n \in Nodes |-> "init"]
    /\ wq = [n \in Nodes |-> <<>>]
    /\ pool = [n \in Nodes |-> <<n * 10, n * 10 + 1, n * 10 + 2>>]
    /\ wt = [n \in Nodes |-> IdleThread]
    /\ st = [n \in Nodes |-> IdleThread]
    /\ lastPub = [n \in Nodes |-> NoPub]
    /\ lastSub = [n \in Nodes |-> NoSub]
    /\ lastSweep = [n \in Nodes |-> NoSweep]
    /\ sent = NoSent
    /\ budget = [local |-> localOps, foreign |-> MaxForeign, failures |-> MaxFailures]

Init == InitWith(MaxLocalOps)

\* the events a running node's watcher receives
Watched(n, events) == IF phase[n] = "running" THEN wq[n] \o events ELSE wq[n]

\* a change by a user is later than every sweep made so far
Stale == [n \in Nodes |-> [lastSweep[n] EXCEPT !.fresh = FALSE]]

(***************************************************************************)
(* The environment: a user changes a file of a node's tree.                *)
(***************************************************************************)
LocalWrite(n) ==
    /\ budget.local > 0
    /\ \E p \in Paths, content \in Contents :
          /\ fs[n][p] # content
          /\ ~is_dir(fs[n], p)
          /\ fs' = [fs EXCEPT ![n][p] = content]
          /\ wq' = [wq EXCEPT ![n] = Watched(n, <<WriteEvent(fs[n][p], p, "user")>>)]
    /\ budget' = [budget EXCEPT !.local = @ - 1]
    /\ lastSweep' = Stale
    /\ UNCHANGED <<broker, phase, pool, wt, st, lastPub, lastSub, sent>>

LocalRemove(n) ==
    /\ budget.local > 0
    /\ \E p \in Paths :
          /\ fs[n][p] \notin {Absent, Directory}
          /\ fs' = [fs EXCEPT ![n][p] = Absent]
          /\ wq' = [wq EXCEPT ![n] = Watched(n, <<Event("Remove", p, "", "user")>>)]
    /\ budget' = [budget EXCEPT !.local = @ - 1]
    /\ lastSweep' = Stale
    /\ UNCHANGED <<broker, phase, pool, wt, st, lastPub, lastSub, sent>>

LocalRename(n) ==
    /\ budget.local > 0
    /\ \E p \in Paths, q \in Paths :
          /\ p # q
          /\ fs[n][p] \notin {Absent, Directory}
          /\ rename_file(fs[n], p, q).ok
          /\ fs' = [fs EXCEPT ![n] = rename_file(fs[n], p, q).f]
          /\ wq' = [wq EXCEPT ![n] = Watched(n, <<Event("Rename", p, q, "user")>>)]
    /\ budget' = [budget EXCEPT !.local = @ - 1]
    /\ lastSweep' = Stale
    /\ UNCHANGED <<broker, phase, pool, wt, st, lastPub, lastSub, sent>>

(***************************************************************************)
(* Start-up of a node: the sweep, then the two workers.                    *)
(***************************************************************************)
\* the failures of one sweep: none, or one read or write of one path
SweepFailures ==
    {[list |-> FALSE, hash |-> {}, content |-> {}, write |-> {}]}
    \cup {[list |-> TRUE, hash |-> {}, content |-> {}, write |-> {}]}
    \cup {[list |-> FALSE, hash |-> {p}, content |-> {}, write |-> {}] : p \in Paths}
    \cup {[list |-> FALSE, hash |-> {}, content |-> {p}, write |-> {}] : p \in Paths}
    \cup {[list |-> FALSE, hash |-> {}, content |-> {}, write |-> {p}] : p \in Paths}

NoFailure(x) == ~x.list /\ x.hash = {} /\ x.content = {} /\ x.write = {}

\* the main thread runs synchronize_local_files_with_remote before the workers
\* exist; an error of the sweep ends the process
Sweep(n) ==
    /\ phase[n] = "init"
    /\ \E x \in SweepFailures :
          /\ NoFailure(x) \/ budget.failures > 0
          /\ LET done(r) ==
                      /\ broker' = r.b
                      /\ fs' = [fs EXCEPT ![n] = r.f]
                      /\ phase' = [phase EXCEPT ![n] = IF r.ok THEN "swept" ELSE "dead"]
                      /\ lastSweep' = [lastSweep EXCEPT ![n] =
                             [state |-> IF r.ok THEN "ok" ELSE "error",
                              listed |-> r.listed, wrote |-> r.wrote, fresh |-> TRUE]]
             IN  done(synchronize_local_files_with_remote(
                          broker, take_connection(pool[n]), fs[n],
                          x.list, x.hash, x.content, x.write))
          /\ budget' = [budget EXCEPT !.failures = IF NoFailure(x) THEN @ ELSE @ - 1]
    /\ UNCHANGED <<wq, pool, wt, st, lastPub, lastSub, sent>>

\* the workers start: the subscriber pins one connection of the pool and
\* subscribes its pattern, the watcher starts to watch the tree
Start(n) ==
    /\ phase[n] = "swept"
    /\ phase' = [phase EXCEPT ![n] = "running"]
    /\ pool' = [pool EXCEPT ![n] = Tail(@)]
    /\ broker' = Apply(broker, Cmd("PSUBSCRIBE", n, SubscribedPattern, <<>>)).b
    /\ UNCHANGED <<fs, wq, wt, st, lastPub, lastSub, lastSweep, sent, budget>>

(***************************************************************************)
(* The watcher handles one event, with no other thread of the node using   *)
(* the pool meanwhile.                                                     *)
(***************************************************************************)
\* what a publish operation did: the event handled, how the transactional block
\* ended, the file as it was read, and whether the store or an inbox differs
\* from what it was when the operation started
PubRecord(event, payload, raw, result, before, after) ==
    [kind |-> event.kind, path |-> event.path, origin |-> event.origin,
     result |-> result, payload |-> payload, raw |-> raw,
     changed |-> StoreView(after) # StoreView(before),
     delivered |-> after.inbox # before.inbox]

Busy(n) == wt[n].ts.phase # "done" \/ st[n].held # 0

\* a receive loop that also ends when the handling of an event fails
panic_on_failure(received, result) ==
    IF received /\ result = "ok" THEN "running" ELSE "watcher_down"

\* the receive loop of the watcher: an event is handled and its error only
\* logged, an error of the channel is a panic of the worker
WatcherLoop(received, result) == IF received THEN "running" ELSE "watcher_down"

WatcherHandle(n) ==
    /\ phase[n] = "running"
    /\ wq[n] # <<>>
    /\ ~Busy(n)
    /\ LET held(event) == IF event.path \in DOMAIN fs[n] THEN fs[n][event.path] ELSE Absent
           done(event, plan, r) ==
               /\ broker' = r.b
               /\ phase' = [phase EXCEPT ![n] = WatcherLoop(TRUE, r.result)]
               /\ lastPub' = [lastPub EXCEPT ![n] =
                      PubRecord(event, plan.payload, held(event), r.result, broker, r.b)]
           handle(event, plan) ==
               IF ~plan.ok
               THEN /\ lastPub' = [lastPub EXCEPT ![n] =
                            PubRecord(event, plan.payload, held(event), "not_run", broker, broker)]
                    /\ phase' = [phase EXCEPT ![n] = WatcherLoop(TRUE, "not_run")]
                    /\ UNCHANGED <<broker, budget>>
               ELSE \E failAt \in 0..(Len(plan.cmds) + 2) :
                    /\ failAt = 0 \/ budget.failures > 0
                    /\ done(event, plan, RunTxn(broker, take_connection(pool[n]),
                                                TxnStart(plan.cmds), failAt))
                    /\ budget' = [budget EXCEPT !.failures = IF failAt = 0 THEN @ ELSE @ - 1]
       IN  handle(Head(wq[n]), WatcherPlan(fs[n], unique_id(n), Head(wq[n])))
    /\ wq' = [wq EXCEPT ![n] = Tail(@)]
    /\ UNCHANGED <<fs, pool, wt, st, lastSub, lastSweep, sent>>

(***************************************************************************)
(* The subscriber handles one message.                                     *)
(***************************************************************************)
FailurePairs == {<<FALSE, FALSE>>, <<TRUE, FALSE>>, <<FALSE, TRUE>>}

\* the outcomes with which the handling of a message fails
FailedOutcomes ==
    {"decode_error", "convert_error", "hash_error", "fetch_error", "apply_error"}

\* a consume loop that ends with the first message it cannot handle
stop_on_failure(outcome) == IF outcome \in FailedOutcomes THEN "subscriber_down" ELSE "running"

\* the consume loop after a message was handled with this outcome: an undecodable
\* payload and a message of the node itself continue the loop, an error of
\* handle_event is logged
SubscriberLoop(outcome) == "running"

\* a consumer that takes the message published last
get_latest_message(inbox) == inbox[Len(inbox)]

\* pubsub.get_message(): the next message of the connection, in the order the
\* server delivered them
get_message(inbox) == Head(inbox)

SubscriberHandle(n) ==
    /\ phase[n] = "running"
    /\ broker.inbox[n] # <<>>
    /\ ~Busy(n)
    /\ st[n].raw = Absent
    /\ LET done(msg, event, r) ==
               /\ broker' = r.b
               /\ fs' = [fs EXCEPT ![n] = r.f]
               /\ wq' = [wq EXCEPT ![n] = @ \o r.events]
               /\ phase' = [phase EXCEPT ![n] = SubscriberLoop(r.outcome)]
               /\ lastSub' = [lastSub EXCEPT ![n] =
                      [outcome |-> r.outcome, channel |-> msg.channel, bytes |-> msg.bytes,
                       was |-> IF event.ok THEN fs[n][event.path] ELSE Absent,
                       made |-> \E p \in DOMAIN r.f : is_dir(r.f, p) /\ ~is_dir(fs[n], p)]]
           handle(msg, taken, decision) ==
               \E fail \in FailurePairs :
                 /\ fail = <<FALSE, FALSE>> \/ (budget.failures > 0 /\ decision = "fetch")
                 /\ done(msg, SubscriberEvent(msg),
                         SubscriberApply(taken, take_connection(pool[n]), fs[n],
                                         unique_id(n), msg, fail[1], fail[2]))
                 /\ budget' = [budget EXCEPT !.failures =
                                  IF fail = <<FALSE, FALSE>> THEN @ ELSE @ - 1]
       IN  handle(get_message(broker.inbox[n]), [broker EXCEPT !.inbox[n] = Tail(@)],
                  SubscriberDecide(fs[n], unique_id(n), get_message(broker.inbox[n])))
    /\ UNCHANGED <<pool, wt, st, lastPub, lastSweep, sent>>

(***************************************************************************)
(* The environment: another client of the server publishes a message.      *)
(***************************************************************************)
Message(channel, bytes) == [channel |-> channel, bytes |-> bytes]

ForeignMessages ==
    {Message(FILE_NEW, Encode(NewFile(e, HashBytes(<<1>>), "/w/x"))) : e \in {7, 13}}
    \cup {Message(FILE_MODIFIED, Encode(ModifiedFile(13, h, "/w/x"))) :
              h \in {HashBytes(<<1>>), HashBytes(Compress(<<1>>))}}
    \cup {Message(FILE_REMOVED, Encode(RemovedFile(13, "/w/x"))),
          Message(FILE_RENAMED, Encode(RenamedFile(13, "/w/x", "/w/y"))),
          Message(FILE_NEW, Encode(RenamedFile(13, "/w/x", "/w/y"))),
          Message(FILE_NEW, <<9>>),
          Message(FILE_EVENT, Encode(NewFile(13, HashBytes(<<1>>), "/w/x")))}

ForeignPublish ==
    /\ budget.foreign > 0
    /\ \E m \in ForeignMessages : broker' = Deliver(broker, m.channel, m.bytes)
    /\ budget' = [budget EXCEPT !.foreign = @ - 1]
    /\ UNCHANGED <<fs, phase, wq, pool, wt, st, lastPub, lastSub, lastSweep, sent>>

Next ==
    \/ \E n \in Nodes : LocalWrite(n)
    \/ \E n \in Nodes : LocalRemove(n)
    \/ \E n \in Nodes : LocalRename(n)
    \/ \E n \in Nodes : Sweep(n)
    \/ \E n \in Nodes : Start(n)
    \/ \E n \in Nodes : WatcherHandle(n)
    \/ \E n \in Nodes : SubscriberHandle(n)
    \/ ForeignPublish

Spec == Init /\ [][Next]_vars

(***************************************************************************)
(* One node publishing the changes of its tree: the store operations alone.*)
(***************************************************************************)
InitStore == InitWith(MaxStoreOps)

NextStore ==
    \/ LocalWrite(1)
    \/ LocalRemove(1)
    \/ LocalRename(1)
    \/ Sweep(1)
    \/ Start(1)
    \/ WatcherHandle(1)

SpecStore == InitStore /\ [][NextStore]_vars

(***************************************************************************)
(* One node receiving the events of other clients.                         *)
(***************************************************************************)
InitSub == InitWith(MaxSubOps)

NextSub ==
    \/ LocalWrite(1)
    \/ Sweep(1)
    \/ Start(1)
    \/ WatcherHandle(1)
    \/ SubscriberHandle(1)
    \/ ForeignPublish

SpecSub == InitSub /\ [][NextSub]_vars

(***************************************************************************)
(* The two workers of one node command by command: every command of the    *)
(* client takes a connection from the pool, sends, and gives it back.      *)
(***************************************************************************)
\* the watcher receives an event and enters in_transaction
WatcherBegin(n) ==
    /\ phase[n] = "running"
    /\ wq[n] # <<>>
    /\ wt[n].ts.phase = "done"
    /\ LET begin(event, plan) ==
               IF ~plan.ok
               THEN /\ lastPub' = [lastPub EXCEPT ![n] =
                            PubRecord(event, plan.payload, fs[n][event.path], "not_run",
                                      broker, broker)]
                    /\ wq' = [wq EXCEPT ![n] = Tail(@)]
                    /\ UNCHANGED wt
               ELSE /\ wt' = [wt EXCEPT ![n] =
                            [ts |-> TxnStart(plan.cmds), held |-> 0, lease |-> 0,
                             start |-> broker, payload |-> plan.payload,
                             raw |-> fs[n][event.path], log |-> <<>>,
                             read |-> wt[n].read]]
                    /\ UNCHANGED <<lastPub, wq>>
       IN  begin(Head(wq[n]), WatcherPlan(fs[n], unique_id(n), Head(wq[n])))
    /\ UNCHANGED <<broker, fs, phase, pool, st, lastSub, lastSweep, sent, budget>>

\* multi, set, rename, del, sadd, srem, smove, publish, exec, discard: take_connection
WatcherTake(n) ==
    /\ wt[n].ts.phase # "done"
    /\ wt[n].held = 0
    /\ pool[n] # <<>>
    /\ wt' = [wt EXCEPT ![n].held = take_connection(pool[n])]
    /\ pool' = [pool EXCEPT ![n] = Tail(@)]
    /\ UNCHANGED <<broker, fs, phase, wq, st, lastPub, lastSub, lastSweep, sent, budget>>

\* ... then the query on the connection taken, which goes back to the pool
WatcherSend(n) ==
    /\ wt[n].held # 0
    /\ \E fail \in BOOLEAN :
          /\ fail => budget.failures > 0
          /\ LET c == wt[n].held
                 finish(cmd, r, ts) ==
                     /\ broker' = r.b
                     /\ sent' = IF fail THEN sent
                                ELSE [by |-> "watcher", node |-> n, conn |-> c, op |-> cmd.op,
                                      lease |-> IF cmd.op = "MULTI" /\ r.ok THEN c
                                                ELSE wt[n].lease]
                     /\ wt' = [wt EXCEPT ![n].ts = ts, ![n].held = 0,
                                         ![n].lease = IF ts.phase = "done" THEN 0
                                                      ELSE IF cmd.op = "MULTI" THEN c
                                                      ELSE @,
                                         ![n].log = Append(@, <<cmd.op, r.ok>>)]
                     /\ IF ts.phase = "done"
                        THEN /\ lastPub' = [lastPub EXCEPT ![n] =
                                     PubRecord(Head(wq[n]), wt[n].payload, wt[n].raw,
                                               ts.result, wt[n].start, r.b)]
                             /\ wq' = [wq EXCEPT ![n] = Tail(@)]
                             /\ phase' = [phase EXCEPT ![n] = WatcherLoop(TRUE, ts.result)]
                        ELSE UNCHANGED <<lastPub, wq, phase>>
                 replied(cmd, r) == finish(cmd, r, After(wt[n].ts, r.ok))
             IN  replied(NextCmd(wt[n].ts), Query(broker, c, NextCmd(wt[n].ts), fail))
          /\ budget' = [budget EXCEPT !.failures = IF fail THEN @ - 1 ELSE @]
    /\ pool' = [pool EXCEPT ![n] = <<wt[n].held>> \o @]
    /\ UNCHANGED <<fs, st, lastSub, lastSweep>>

\* the subscriber finds the hashes differ and calls get: take_connection
SubscriberTake(n) ==
    /\ phase[n] = "running"
    /\ broker.inbox[n] # <<>>
    /\ st[n].held = 0
    /\ pool[n] # <<>>
    /\ SubscriberDecide(fs[n], unique_id(n), get_message(broker.inbox[n])) = "fetch"
    /\ st' = [st EXCEPT ![n].held = take_connection(pool[n])]
    /\ pool' = [pool EXCEPT ![n] = Tail(@)]
    /\ UNCHANGED <<broker, fs, phase, wq, wt, lastPub, lastSub, lastSweep, sent, budget>>

\* ... then the GET on the connection taken, which goes back to the pool, and
\* the write of the file
SubscriberFinish(n) ==
    /\ st[n].held # 0
    /\ LET c == st[n].held
           done(msg, event, r) ==
               /\ broker' = r.b
               /\ fs' = [fs EXCEPT ![n] = r.f]
               /\ wq' = [wq EXCEPT ![n] = @ \o r.events]
               /\ phase' = [phase EXCEPT ![n] = SubscriberLoop(r.outcome)]
               /\ lastSub' = [lastSub EXCEPT ![n] =
                      [outcome |-> r.outcome, channel |-> msg.channel, bytes |-> msg.bytes,
                       was |-> IF event.ok THEN fs[n][event.path] ELSE Absent,
                       made |-> \E p \in DOMAIN r.f : is_dir(r.f, p) /\ ~is_dir(fs[n], p)]]
           handle(msg, taken) ==
               \E fail \in FailurePairs :
                 /\ fail = <<FALSE, FALSE>> \/ budget.failures > 0
                 /\ done(msg, SubscriberEvent(msg),
                         SubscriberApply(taken, c, fs[n], unique_id(n), msg, fail[1], fail[2]))
                 /\ sent' = IF fail[1] THEN sent
                            ELSE [by |-> "subscriber", node |-> n, conn |-> c, op |-> "GET",
                                  lease |-> wt[n].lease]
                 /\ budget' = [budget EXCEPT !.failures =
                                  IF fail = <<FALSE, FALSE>> THEN @ ELSE @ - 1]
       IN  handle(get_message(broker.inbox[n]), [broker EXCEPT !.inbox[n] = Tail(@)])
    /\ st' = [st EXCEPT ![n].held = 0]
    /\ pool' = [pool EXCEPT ![n] = <<st[n].held>> \o @]
    /\ UNCHANGED <<wt, lastPub, lastSweep>>

NextTxn ==
    \/ (st[1].held = 0 /\ LocalWrite(1))
    \/ Sweep(1)
    \/ Start(1)
    \/ WatcherBegin(1)
    \/ WatcherTake(1)
    \/ WatcherSend(1)
    \/ SubscriberTake(1)
    \/ SubscriberFinish(1)
    \/ SubscriberHandle(1)
    \/ ForeignPublish

SpecTxn == Init /\ [][NextTxn]_vars

(***************************************************************************)
(* The start-up sweep of one node against a store other nodes have filled. *)
(***************************************************************************)
\* what the hash key of a listed path may hold: nothing, or the decimal text of
\* a hash (of some file's compressed bytes, of its raw bytes, or the number 1)
SeedHashes ==
    {Nil} \cup {Decimal(h) : h \in {1, hash_content(Compress(<<1>>)), HashBytes(<<1>>)}}

\* what the content key of a listed path may hold
SeedContents == {Nil} \cup {Compress(content) : content \in Contents}

\* the stores: every path is unknown to the store or a member of all_files
SeededStores ==
    {[EmptyBroker EXCEPT
        !.kv = [k \in Keys |->
                   IF k[2] \notin files THEN Nil
                   ELSE IF k = to_hash_key(k[2]) THEN hashes[k[2]]
                   ELSE contents[k[2]]],
        !.sets = [EmptyBroker.sets EXCEPT ![SET_OF_ALL_FILES_NAME] = files]] :
     files \in SUBSET Paths, hashes \in [Paths -> SeedHashes],
     contents \in [Paths -> SeedContents]}

InitSweep ==
    /\ broker \in SeededStores
    /\ fs \in {[n \in Nodes |-> IF n = 1 THEN tree ELSE [p \in Paths |-> Absent]] :
                tree \in [Paths -> {Absent} \cup Contents]}
    /\ phase = [n \in Nodes |-> "init"]
    /\ wq = [n \in Nodes |-> <<>>]
    /\ pool = [n \in Nodes |-> <<n * 10, n * 10 + 1, n * 10 + 2>>]
    /\ wt = [n \in Nodes |-> IdleThread]
    /\ st = [n \in Nodes |-> IdleThread]
    /\ lastPub = [n \in Nodes |-> NoPub]
    /\ lastSub = [n \in Nodes |-> NoSub]
    /\ lastSweep = [n \in Nodes |-> NoSweep]
    /\ sent = NoSent
    /\ budget = [local |-> 0, foreign |-> 0, failures |-> MaxFailures]

NextSweep ==
    \/ Sweep(1)
    \/ Start(1)

SpecSweep == InitSweep /\ [][NextSweep]_vars

(***************************************************************************)
(* The watcher of one node whose tree holds directories and a path that is *)
(* no UTF-8 text, with a watcher that reports errors.                      *)
(***************************************************************************)
InitWatch ==
    /\ broker = [EmptyBroker EXCEPT
                    !.kv = [k \in {to_hash_key(p) : p \in AllPaths}
                                  \cup {to_content_key(p) : p \in AllPaths} |-> Nil],
                    !.sets = [k \in {SET_OF_ALL_FILES_NAME} \cup AllPaths |-> {}]]
    /\ fs = [n \in Nodes |-> [p \in AllPaths |-> Absent]]
    /\ phase = [n \in Nodes |-> "init"]
    /\ wq = [n \in Nodes |-> <<>>]
    /\ pool = [n \in Nodes |-> <<n * 10, n * 10 + 1, n * 10 + 2>>]
    /\ wt = [n \in Nodes |-> IdleThread]
    /\ st = [n \in Nodes |-> IdleThread]
    /\ lastPub = [n \in Nodes |-> NoPub]
    /\ lastSub = [n \in Nodes |-> NoSub]
    /\ lastSweep = [n \in Nodes |-> NoSweep]
    /\ sent = NoSent
    /\ budget = [local |-> MaxWatchOps, foreign |-> 0, failures |-> MaxFailures]

\* a user makes, removes or renames a directory
DirCreate(n) ==
    /\ budget.local > 0
    /\ \E p \in Paths :
          /\ fs[n][p] = Absent
          /\ fs' = [fs EXCEPT ![n][p] = Directory]
          /\ wq' = [wq EXCEPT ![n] = Watched(n, <<Event("Create", p, "", "user_dir")>>)]
    /\ budget' = [budget EXCEPT !.local = @ - 1]
    /\ lastSweep' = Stale
    /\ UNCHANGED <<broker, phase, pool, wt, st, lastPub, lastSub, sent>>

DirRemove(n) ==
    /\ budget.local > 0
    /\ \E p \in Paths :
          /\ is_dir(fs[n], p)
          /\ fs' = [fs EXCEPT ![n][p] = Absent]
          /\ wq' = [wq EXCEPT ![n] = Watched(n, <<Event("Remove", p, "", "user_dir")>>)]
    /\ budget' = [budget EXCEPT !.local = @ - 1]
    /\ lastSweep' = Stale
    /\ UNCHANGED <<broker, phase, pool, wt, st, lastPub, lastSub, sent>>

DirRename(n) ==
    /\ budget.local > 0
    /\ \E p \in Paths, q \in Paths :
          /\ p # q
          /\ is_dir(fs[n], p)
          /\ rename_file(fs[n], p, q).ok
          /\ fs' = [fs EXCEPT ![n] = rename_file(fs[n], p, q).f]
          /\ wq' = [wq EXCEPT ![n] = Watched(n, <<Event("Rename", p, q, "user_dir")>>)]
    /\ budget' = [budget EXCEPT !.local = @ - 1]
    /\ lastSweep' = Stale
    /\ UNCHANGED <<broker, phase, pool, wt, st, lastPub, lastSub, sent>>

\* a user writes, removes or renames the file whose path is no UTF-8 text
OddWrite(n) ==
    /\ budget.local > 0
    /\ \E content \in Contents :
          /\ fs[n][NonUtf8Path] # content
          /\ fs' = [fs EXCEPT ![n][NonUtf8Path] = content]
          /\ wq' = [wq EXCEPT ![n] =
                       Watched(n, <<WriteEvent(fs[n][NonUtf8Path], NonUtf8Path, "user")>>)]
    /\ budget' = [budget EXCEPT !.local = @ - 1]
    /\ lastSweep' = Stale
    /\ UNCHANGED <<broker, phase, pool, wt, st, lastPub, lastSub, sent>>

OddRemove(n) ==
    /\ budget.local > 0
    /\ fs[n][NonUtf8Path] # Absent
    /\ fs' = [fs EXCEPT ![n][NonUtf8Path] = Absent]
    /\ wq' = [wq EXCEPT ![n] = Watched(n, <<Event("Remove", NonUtf8Path, "", "user")>>)]
    /\ budget' = [budget EXCEPT !.local = @ - 1]
    /\ lastSweep' = Stale
    /\ UNCHANGED <<broker, phase, pool, wt, st, lastPub, lastSub, sent>>

OddRename(n) ==
    /\ budget.local > 0
    /\ \E p \in Paths, toOdd \in BOOLEAN :
          LET old == IF toOdd THEN p ELSE NonUtf8Path
              new == IF toOdd THEN NonUtf8Path ELSE p
          IN  /\ fs[n][old] \notin {Absent, Directory}
              /\ rename_file(fs[n], old, new).ok
              /\ fs' = [fs EXCEPT ![n] = rename_file(fs[n], old, new).f]
              /\ wq' = [wq EXCEPT ![n] = Watched(n, <<Event("Rename", old, new, "user")>>)]
    /\ budget' = [budget EXCEPT !.local = @ - 1]
    /\ lastSweep' = Stale
    /\ UNCHANGED <<broker, phase, pool, wt, st, lastPub, lastSub, sent>>

\* the file watcher reports an error of its own as an event
WatchError(n) ==
    /\ budget.local > 0
    /\ phase[n] = "running"
    /\ \E p \in Paths :
          wq' = [wq EXCEPT ![n] = @ \o <<Event("Error", p, "", "watcher")>>]
    /\ budget' = [budget EXCEPT !.local = @ - 1]
    /\ UNCHANGED <<broker, fs, phase, pool, wt, st, lastPub, lastSub, lastSweep, sent>>

\* the channel of the events breaks: recv returns an error to the waiting loop
\* the notify crate announces a change before the debounce delay, a change of
\* permissions, or a rescan of the watched paths
WatchNotice(n) ==
    /\ budget.local > 0
    /\ phase[n] = "running"
    /\ \E kind \in Notices, p \in Paths :
          wq' = [wq EXCEPT ![n] =
                    @ \o <<Event(kind, IF kind = "Rescan" THEN "" ELSE p, "", "watcher")>>]
    /\ budget' = [budget EXCEPT !.local = @ - 1]
    /\ UNCHANGED <<broker, fs, phase, pool, wt, st, lastPub, lastSub, lastSweep, sent>>

ChannelError(n) ==
    /\ phase[n] = "running"
    /\ wq[n] = <<>>
    /\ ~Busy(n)
    /\ phase' = [phase EXCEPT ![n] = WatcherLoop(FALSE, "none")]
    /\ UNCHANGED <<broker, fs, wq, pool, wt, st, lastPub, lastSub, lastSweep, sent, budget>>

NextWatch ==
    \/ LocalWrite(1)
    \/ LocalRemove(1)
    \/ LocalRename(1)
    \/ DirCreate(1)
    \/ DirRemove(1)
    \/ DirRename(1)
    \/ OddWrite(1)
    \/ OddRemove(1)
    \/ OddRename(1)
    \/ WatchError(1)
    \/ WatchNotice(1)
    \/ ChannelError(1)
    \/ Sweep(1)
    \/ Start(1)
    \/ WatcherHandle(1)

SpecWatch == InitWatch /\ [][NextWatch]_vars

(***************************************************************************)
(* The subscriber of one node whose tree has a directory below the watched *)
(* one: other clients rename files into and out of that directory.         *)
(***************************************************************************)
\* the trees: files at the paths, and at /w/d nothing, a directory or a file;
\* /w/d/z can only hold a file when /w/d is a directory
Trees ==
    {tree \in [TreePaths -> {Absent, Directory} \cup Contents] :
        /\ \A p \in Paths \cup {DeepPath} : tree[p] # Directory
        /\ tree[DeepPath] # Absent => tree[ParentDir] = Directory}

InitTree ==
    /\ broker = EmptyBroker
    /\ fs \in {[n \in Nodes |-> IF n = 1 THEN tree ELSE [p \in TreePaths |-> Absent]] :
                tree \in Trees}
    /\ phase = [n \in Nodes |-> "init"]
    /\ wq = [n \in Nodes |-> <<>>]
    /\ pool = [n \in Nodes |-> <<n * 10, n * 10 + 1, n * 10 + 2>>]
    /\ wt = [n \in Nodes |-> IdleThread]
    /\ st = [n \in Nodes |-> IdleThread]
    /\ lastPub = [n \in Nodes |-> NoPub]
    /\ lastSub = [n \in Nodes |-> NoSub]
    /\ lastSweep = [n \in Nodes |-> NoSweep]
    /\ sent = NoSent
    /\ budget = [local |-> 0, foreign |-> MaxForeign, failures |-> MaxFailures]

\* the renames another client publishes
DeepMessages ==
    {Message(FILE_RENAMED, Encode(RenamedFile(13, "/w/x", DeepPath))),
     Message(FILE_RENAMED, Encode(RenamedFile(13, DeepPath, "/w/x"))),
     Message(FILE_RENAMED, Encode(RenamedFile(13, "/w/x", "/w/y")))}

DeepPublish ==
    /\ budget.foreign > 0
    /\ \E m \in DeepMessages : broker' = Deliver(broker, m.channel, m.bytes)
    /\ budget' = [budget EXCEPT !.foreign = @ - 1]
    /\ UNCHANGED <<fs, phase, wq, pool, wt, st, lastPub, lastSub, lastSweep, sent>>

NextTree ==
    \/ Sweep(1)
    \/ Start(1)
    \/ DeepPublish
    \/ SubscriberHandle(1)

SpecTree == InitTree /\ [][NextTree]_vars

(***************************************************************************)
(* The wire: payloads of every variant published to one subscribed node.   *)
(***************************************************************************)
WireHashes == {0, HashBytes(<<1>>)}

WirePayloads ==
    {NewFile(e, h, p) : e \in Emitters, h \in WireHashes, p \in Paths}
    \cup {ModifiedFile(e, h, p) : e \in Emitters, h \in WireHashes, p \in Paths}
    \cup {RemovedFile(e, p) : e \in Emitters, p \in Paths}
    \cup {RenamedFile(e, p, q) : e \in Emitters, p \in Paths, q \in Paths}

InitWire ==
    /\ broker = EmptyBroker
    /\ fs = [n \in Nodes |-> [p \in Paths |-> Absent]]
    /\ phase = [n \in Nodes |-> "init"]
    /\ wq = [n \in Nodes |-> <<>>]
    /\ pool = [n \in Nodes |-> <<n * 10, n * 10 + 1, n * 10 + 2>>]
    /\ wt = [n \in Nodes |-> IdleThread]
    /\ st = [n \in Nodes |-> IdleThread]
    /\ lastPub = [n \in Nodes |-> NoPub]
    /\ lastSub = [n \in Nodes |-> NoSub]
    /\ lastSweep = [n \in Nodes |-> NoSweep]
    /\ sent = NoSent
    /\ budget = [local |-> 0, foreign |-> MaxWire, failures |-> 0]

\* a client publishes a payload: RedisClient::publish on one of the channels;
\* lastPub[2] keeps the payload that was handed to publish
WirePublish ==
    /\ budget.foreign > 0
    /\ \E x \in WirePayloads, channel \in Channels :
          /\ broker' = Apply(broker, CmdPublish(channel, x)).b
          /\ lastPub' = [lastPub EXCEPT ![2] =
                 [NoPub EXCEPT !.kind = "wire", !.payload = x, !.result = "ok"]]
    /\ budget' = [budget EXCEPT !.foreign = @ - 1]
    /\ UNCHANGED <<fs, phase, wq, pool, wt, st, lastSub, lastSweep, sent>>

NextWire ==
    \/ Sweep(1)
    \/ Start(1)
    \/ WirePublish
    \/ SubscriberHandle(1)

SpecWire == InitWire /\ [][NextWire]_vars

(***************************************************************************)
(* The write of a fetched file step by step: fs::write opens the file with *)
(* truncation and then writes the bytes, while the watcher thread of the   *)
(* node reads files for its own events.                                    *)
(***************************************************************************)
InitWrite ==
    /\ broker \in SeededStores
    /\ fs = [n \in Nodes |-> [p \in Paths |-> Absent]]
    /\ phase = [n \in Nodes |-> "init"]
    /\ wq = [n \in Nodes |-> <<>>]
    /\ pool = [n \in Nodes |-> <<n * 10, n * 10 + 1, n * 10 + 2>>]
    /\ wt = [n \in Nodes |-> IdleThread]
    /\ st = [n \in Nodes |-> IdleThread]
    /\ lastPub = [n \in Nodes |-> NoPub]
    /\ lastSub = [n \in Nodes |-> NoSub]
    /\ lastSweep = [n \in Nodes |-> NoSweep]
    /\ sent = NoSent
    /\ budget = [local |-> MaxSubOps, foreign |-> MaxForeign, failures |-> 0]

\* the subscriber takes a message that asks for a fetch, reads the content and
\* begins write_file: the file is created or truncated; st[n].raw keeps the
\* bytes to write, lastSub[n].was what the file held
SubscriberOpen(n) ==
    /\ phase[n] = "running"
    /\ broker.inbox[n] # <<>>
    /\ st[n].raw = Absent
    /\ LET open(msg, event, decision, rc, e) ==
               /\ decision = "fetch"
               /\ rc.ok
               /\ ~is_dir(e.f, event.path)
               /\ broker' = [rc.b EXCEPT !.inbox[n] = Tail(@)]
               /\ fs' = [fs EXCEPT ![n] = [e.f EXCEPT ![event.path] = <<>>]]
               /\ st' = [st EXCEPT ![n].raw = rc.val]
               /\ lastSub' = [lastSub EXCEPT ![n] =
                      [outcome |-> "writing", channel |-> msg.channel, bytes |-> msg.bytes,
                       was |-> fs[n][event.path], made |-> FALSE]]
           decided(msg, event, decision) ==
               /\ event.ok
               /\ open(msg, event, decision,
                       get_remote_file_content(broker, take_connection(pool[n]),
                                               event.path, FALSE),
                       ensure_directory_exists(fs[n], event.path))
       IN  decided(get_message(broker.inbox[n]), SubscriberEvent(get_message(broker.inbox[n])),
                   SubscriberDecide(fs[n], unique_id(n), get_message(broker.inbox[n])))
    /\ UNCHANGED <<phase, wq, pool, wt, lastPub, lastSweep, sent, budget>>

\* ... and write_all puts the bytes into the file; the watcher is told
SubscriberWriteAll(n) ==
    /\ st[n].raw # Absent
    /\ LET written(event) ==
               /\ fs' = [fs EXCEPT ![n][event.path] = st[n].raw]
               /\ wq' = [wq EXCEPT ![n] =
                            @ \o <<WriteEvent(lastSub[n].was, event.path, "subscriber")>>]
       IN  written(SubscriberEvent(Message(lastSub[n].channel, lastSub[n].bytes)))
    /\ st' = [st EXCEPT ![n].raw = Absent]
    /\ lastSub' = [lastSub EXCEPT ![n].outcome = "written"]
    /\ phase' = [phase EXCEPT ![n] = SubscriberLoop("written")]
    /\ UNCHANGED <<broker, pool, wt, lastPub, lastSweep, sent, budget>>

NextWrite ==
    \/ LocalWrite(1)
    \/ Sweep(1)
    \/ Start(1)
    \/ ForeignPublish
    \/ WatcherHandle(1)
    \/ SubscriberOpen(1)
    \/ SubscriberWriteAll(1)

SpecWrite == InitWrite /\ [][NextWrite]_vars

(***************************************************************************)
(* Several messages wait for the subscriber, which handles them either in  *)
(* one step or, for a fetch, in the steps of write_file.                   *)
(***************************************************************************)
InitOrder ==
    /\ broker \in {b \in SeededStores :
                      /\ b.sets[SET_OF_ALL_FILES_NAME] = {"/w/x"}
                      /\ b.kv[to_hash_key("/w/x")] # Nil
                      /\ b.kv[to_content_key("/w/x")] # Nil}
    /\ fs = [n \in Nodes |-> [p \in Paths |-> Absent]]
    /\ phase = [n \in Nodes |-> "init"]
    /\ wq = [n \in Nodes |-> <<>>]
    /\ pool = [n \in Nodes |-> <<n * 10, n * 10 + 1, n * 10 + 2>>]
    /\ wt = [n \in Nodes |-> IdleThread]
    /\ st = [n \in Nodes |-> IdleThread]
    /\ lastPub = [n \in Nodes |-> NoPub]
    /\ lastSub = [n \in Nodes |-> NoSub]
    /\ lastSweep = [n \in Nodes |-> NoSweep]
    /\ sent = NoSent
    /\ budget = [local |-> 0, foreign |-> MaxOrder, failures |-> 0]

NextOrder ==
    \/ Sweep(1)
    \/ Start(1)
    \/ ForeignPublish
    \/ (/\ broker.inbox[1] # <<>>
        /\ SubscriberDecide(fs[1], unique_id(1), get_message(broker.inbox[1])) # "fetch"
        /\ SubscriberHandle(1))
    \/ SubscriberOpen(1)
    \/ SubscriberWriteAll(1)

SpecOrder == InitOrder /\ [][NextOrder]_vars

(***************************************************************************)
(* One watcher that runs in_transaction command by command, with commands  *)
(* that fail.                                                              *)
(***************************************************************************)
NextBracket ==
    \/ LocalWrite(1)
    \/ LocalRemove(1)
    \/ LocalRename(1)
    \/ Sweep(1)
    \/ Start(1)
    \/ WatcherBegin(1)
    \/ WatcherTake(1)
    \/ WatcherSend(1)

SpecBracket == InitStore /\ [][NextBracket]_vars

(***************************************************************************)
(* The watcher reads a file in the two steps of                            *)
(* local_file_content_compressed while the user and the subscriber write.  *)
(***************************************************************************)
\* handle_event for Create and Write up to File::open and io::copy into the
\* FrameEncoder; a directory is skipped and a file that cannot be opened ends
\* the handling with a logged error
WatcherOpen(n) ==
    /\ phase[n] = "running"
    /\ wq[n] # <<>>
    /\ ~Busy(n)
    /\ ~wt[n].read.pending
    /\ Head(wq[n]).kind \in {"Create", "Write"}
    /\ LET open(event) ==
               IF fs[n][event.path] \in {Absent, Directory}
               THEN /\ lastPub' = [lastPub EXCEPT ![n] =
                            PubRecord(event, NoPayload, fs[n][event.path], "not_run",
                                      broker, broker)]
                    /\ phase' = [phase EXCEPT ![n] = WatcherLoop(TRUE, "not_run")]
                    /\ wq' = [wq EXCEPT ![n] = Tail(@)]
                    /\ UNCHANGED wt
               ELSE /\ wt' = [wt EXCEPT ![n].read =
                            [pending |-> TRUE, done |-> FALSE,
                             content |-> Compress(fs[n][event.path]), hash |-> 0]]
                    /\ UNCHANGED <<lastPub, phase, wq>>
       IN  open(Head(wq[n]))
    /\ UNCHANGED <<broker, fs, pool, st, lastSub, lastSweep, sent, budget>>

\* ... then local_hash reads the file again, get_file_content_and_hash returns
\* the pair and the store function runs its block
WatcherHash(n) ==
    /\ wt[n].read.pending
    /\ LET ended(event, plan, result, b) ==
               /\ broker' = b
               /\ phase' = [phase EXCEPT ![n] = WatcherLoop(TRUE, result)]
               /\ lastPub' = [lastPub EXCEPT ![n] =
                      PubRecord(event, plan.payload, fs[n][event.path], result, broker, b)]
           done(event, plan, r) == ended(event, plan, r.result, r.b)
           hashed(event, plan, hash) ==
               IF ~hash.ok
               THEN /\ wt' = [wt EXCEPT ![n].read.pending = FALSE]
                    /\ ended(event, plan, "not_run", broker)
                    /\ UNCHANGED budget
               ELSE /\ wt' = [wt EXCEPT ![n].read.pending = FALSE, ![n].read.done = TRUE,
                                         ![n].read.hash = hash.val]
                    /\ IF ~plan.ok
                       THEN ended(event, plan, "not_run", broker) /\ UNCHANGED budget
                       ELSE \E failAt \in 0..(Len(plan.cmds) + 2) :
                              /\ failAt = 0 \/ budget.failures > 0
                              /\ done(event, plan, RunTxn(broker, take_connection(pool[n]),
                                                          TxnStart(plan.cmds), failAt))
                              /\ budget' = [budget EXCEPT !.failures =
                                               IF failAt = 0 THEN @ ELSE @ - 1]
       IN  hashed(Head(wq[n]), WatcherPlan(fs[n], unique_id(n), Head(wq[n])),
                  local_hash(fs[n], Head(wq[n]).path))
    /\ wq' = [wq EXCEPT ![n] = Tail(@)]
    /\ UNCHANGED <<fs, pool, st, lastSub, lastSweep, sent>>

NextRead ==
    \/ LocalWrite(1)
    \/ Sweep(1)
    \/ Start(1)
    \/ ForeignPublish
    \/ SubscriberHandle(1)
    \/ (/\ wq[1] # <<>>
        /\ Head(wq[1]).kind \notin {"Create", "Write"}
        /\ WatcherHandle(1))
    \/ WatcherOpen(1)
    \/ WatcherHash(1)

SpecRead == InitWrite /\ [][NextRead]_vars

(***************************************************************************)
(* Properties.                                                             *)
(***************************************************************************)
HasKey(key) == broker.kv[key] # Nil
AllFiles == broker.sets[SET_OF_ALL_FILES_NAME]

\* C1: in every store state between publish operations, for every path P the
\* keys content:P and hash:P and the membership of P in all_files exist together
\* or not at all (so all_files is the set of paths that have a content key).
StoreRecordInvariant ==
    \A p \in Paths :
        /\ HasKey(to_content_key(p)) <=> HasKey(to_hash_key(p))
        /\ HasKey(to_content_key(p)) <=> p \in AllFiles

\* C2: while a transactional block of the watcher is open, the keys and all_files
\* are what they were before the block: nobody can observe a part of it.
TransactionIsolation ==
    \A n \in Nodes : wt[n].lease # 0 => StoreView(broker) = StoreView(wt[n].start)

\* C3: while a node has a block open, every command of the block goes on the
\* connection of its MULTI, and no command of the node's other thread does.
ConnectionDiscipline ==
    sent.lease # 0 =>
        /\ sent.by = "watcher" => sent.conn = sent.lease
        /\ sent.by = "subscriber" => sent.conn # sent.lease

\* C4: a publish operation that returned an error because a command of its block
\* failed has changed no key and not all_files, and has delivered no event.
FailedPublishLeavesNoTrace ==
    \A n \in Nodes :
        lastPub[n].result \in {"cancelled", "discard_error", "exec_error"} =>
            ~lastPub[n].changed /\ ~lastPub[n].delivered

\* C5: for every path P of all_files that has both keys, hash:P is the decimal
\* form of the hash local_hash computes of the decompressed content:P.
HashConsistency ==
    \A p \in AllFiles :
        HasKey(to_content_key(p)) /\ HasKey(to_hash_key(p)) =>
            broker.kv[to_hash_key(p)] =
                Decimal(local_hash([q \in Paths |-> Decompress(broker.kv[to_content_key(p)])],
                                   p).val)

\* the message a subscriber handled last, decoded, and the event it stands for
Handled(n) == Decode(lastSub[n].bytes)
HandledEvent(n) == from_str_and_payload(lastSub[n].channel, Handled(n).val)
\* that message announced new content of a file and came from another emitter
ForeignContentEvent(n) ==
    /\ lastSub[n].outcome # "none"
    /\ Handled(n).ok
    /\ get_emitter_id(Handled(n).val) # unique_id(n)
    /\ HandledEvent(n).ok
    /\ HandledEvent(n).kind \in {"New", "Modified"}

\* C6: a step in which a node's subscriber takes a message whose emitter is the
\* node's own id changes no file of the node, queues no watcher event, sends no
\* command to the server, and records the message as discarded.
SelfEchoNeverApplied ==
    [][\A n \in Nodes :
          (/\ broker.inbox[n] # <<>>
           /\ Len(broker'.inbox[n]) < Len(broker.inbox[n])
           /\ Decode(Head(broker.inbox[n]).bytes).ok
           /\ get_emitter_id(Decode(Head(broker.inbox[n]).bytes).val) = unique_id(n))
          => (/\ fs'[n] = fs[n]
              /\ wq'[n] = wq[n]
              /\ sent' = sent
              /\ StoreView(broker') = StoreView(broker)
              /\ lastSub'[n].outcome = "self")]_vars

\* a subscriber discarded a message that carries its own node's id
SelfEchoSeen ==
    \E n \in Nodes :
        /\ lastSub[n].outcome = "self"
        /\ get_emitter_id(Handled(n).val) = unique_id(n)

\* C7: a subscriber that handled NewFile or ModifiedFile of another emitter for a
\* path it did not have went on to fetch the content and write the file.
AbsentFileIsFetched ==
    \A n \in Nodes :
        ForeignContentEvent(n) /\ lastSub[n].was = Absent =>
            lastSub[n].outcome \in {"written", "fetch_error", "apply_error"}

NoRepublishAfterRemoteApply ==
    \A n \in Nodes :
        lastPub[n].origin = "subscriber" /\ lastPub[n].kind \in {"Create", "Write"} =>
            lastPub[n].result = "not_run"

\* C9: the watcher of a node handles the event of a write of the node's own
\* subscriber like any other: if the file is still there it runs a publish
\* operation for that path, with the node's own id as emitter.
RemoteApplyIsRepublished ==
    \A n \in Nodes :
        (/\ lastPub[n].origin = "subscriber"
         /\ lastPub[n].kind \in {"Create", "Write"}
         /\ lastPub[n].raw # Absent)
        => (/\ lastPub[n].result # "not_run"
            /\ lastPub[n].payload.variant \in {"NewFile", "ModifiedFile"}
            /\ get_emitter_id(lastPub[n].payload) = unique_id(n)
            /\ lastPub[n].payload.path = lastPub[n].path)

\* a publish operation for a write of the subscriber committed
RepublishSeen ==
    \E n \in Nodes :
        /\ lastPub[n].origin = "subscriber"
        /\ lastPub[n].kind = "Write"
        /\ lastPub[n].result = "ok"

\* the (path, hash of content) pairs of a node's tree
TreeHashes(n) ==
    {<<p, local_hash(fs[n], p).val>> : p \in {q \in Paths : fs[n][q] # Absent}}

\* every node has made its sweep, no user has changed a file since, and no event
\* or message waits to be handled
Quiescent ==
    \A n \in Nodes :
        /\ lastSweep[n].state = "ok"
        /\ lastSweep[n].fresh
        /\ wq[n] = <<>>
        /\ broker.inbox[n] = <<>>

\* C10: when the system is quiescent the trees of the two nodes hold the same
\* (path, hash of content) pairs.
ConvergenceUnderQuiescence ==
    Quiescent => \A n, m \in Nodes : TreeHashes(n) = TreeHashes(m)

\* C11: every publish operation that committed has put its event into the inbox
\* of the subscribed nodes: the channel the store publishes on is one the
\* subscriber's pattern matches.
PublishedEventsReachSubscribers ==
    \A n \in Nodes :
        lastPub[n].result = "ok" /\ broker.psubs[n] # {} => lastPub[n].delivered

\* node n makes its sweep in this step
Sweeps(n) == phase[n] = "init" /\ phase'[n] # "init"

\* what a sweep in which nothing fails to be read or written leaves at path p:
\* the file as it is when the hashes agree or the content cannot be had, the
\* decompressed content otherwise
SweptFile(n, p) ==
    LET c == take_connection(pool[n])
        remote == get_remote_file_hash(broker, c, p, FALSE)
        local == local_hash(fs[n], p)
        content == get_remote_file_content(broker, c, p, FALSE)
    IN  IF (IF remote.ok THEN remote.val ELSE 0) = (IF local.ok THEN local.val ELSE 1)
        THEN fs[n][p]
        ELSE IF content.ok THEN content.val ELSE fs[n][p]

\* C12: in a sweep without a failing connection or write, every listed path
\* whose remote hash or local hash cannot be read, and whose content can, is
\* written.
SweepSentinelsMismatch ==
    [][\A n \in Nodes :
          Sweeps(n) /\ budget' = budget =>
            \A p \in lastSweep'[n].listed :
                (/\ \/ ~get_remote_file_hash(broker, take_connection(pool[n]), p, FALSE).ok
                    \/ ~local_hash(fs[n], p).ok
                 /\ get_remote_file_content(broker, take_connection(pool[n]), p, FALSE).ok)
                => p \in lastSweep'[n].wrote]_vars

\* C13: a sweep that ends in an error has written no file; a sweep that ends
\* well has left alone every path that is no member of all_files and has treated
\* every member on its own: without a failure each holds what its own hashes and
\* content ask for, and one failure spoils at most the one path it hits.
SweepErrorPolicy ==
    [][\A n \in Nodes :
          Sweeps(n) =>
            IF phase'[n] = "dead"
            THEN fs' = fs /\ lastSweep'[n].state = "error"
            ELSE /\ lastSweep'[n].state = "ok"
                 /\ lastSweep'[n].listed = AllFiles
                 /\ \A p \in Paths \ AllFiles : fs'[n][p] = fs[n][p]
                 /\ budget' = budget => \A p \in AllFiles : fs'[n][p] = SweptFile(n, p)
                 /\ Cardinality({p \in AllFiles : fs'[n][p] # SweptFile(n, p)}) <= 1]_vars

\* a sweep went on after a failure: of two listed paths it wrote one
SweepSurvivedFailure ==
    \E n \in Nodes :
        /\ lastSweep[n].state = "ok"
        /\ Cardinality(lastSweep[n].listed) = 2
        /\ Cardinality(lastSweep[n].wrote) = 1
        /\ budget.failures < MaxFailures

\* C14: a sweep changes no key, no set and no inbox of the server and runs no
\* publish operation.
SweepReadsOnly ==
    [][\A n \in Nodes :
          Sweeps(n) =>
            /\ StoreView(broker') = StoreView(broker)
            /\ broker'.sets = broker.sets
            /\ broker'.inbox = broker.inbox
            /\ broker'.conns = broker.conns
            /\ lastPub' = lastPub]_vars

\* a sweep wrote a file
SweepWroteFile == \E n \in Nodes : lastSweep[n].wrote # {}

\* C17: a publish operation one of whose commands failed never ends with the
\* error of DISCARD in place of the error of the command: the error it returns is
\* the "transaction was cancelled" error that carries the cause.
DiscardNeverShadowsCause ==
    \A n \in Nodes : lastPub[n].result # "discard_error"

\* C18: a step in which a node's subscriber takes a message leaves the subscriber
\* in its consume loop whatever the outcome, and a message that could not be
\* decoded, converted, hashed, fetched or applied is dropped: it is out of the
\* inbox and has changed no file and queued no watcher event.
SubscriberSurvivesFailures ==
    [][\A n \in Nodes :
          (broker.inbox[n] # <<>> /\ Len(broker'.inbox[n]) < Len(broker.inbox[n]))
          => (/\ phase'[n] = "running"
              /\ broker'.inbox[n] = Tail(broker.inbox[n])
              /\ lastSub'[n].outcome \in FailedOutcomes =>
                     fs'[n] = fs[n] /\ wq'[n] = wq[n])]_vars

\* a subscriber failed to remove a file it does not have and is still consuming
SubscriberFailedAndRuns ==
    \E n \in Nodes :
        /\ lastSub[n].outcome = "apply_error"
        /\ HandledEvent(n).kind = "Removed"
        /\ lastSub[n].was = Absent
        /\ phase[n] = "running"

\* C20: a step in which a node's subscriber takes a NewFile or ModifiedFile
\* message of another emitter whose hash equals the local hash of the path only
\* takes the message out of the inbox: no file of the node changes, no watcher
\* event is queued, no command is sent, and the message is recorded as matching.
HashMatchIsNoOp ==
    [][\A n \in Nodes :
          (/\ broker.inbox[n] # <<>>
           /\ Len(broker'.inbox[n]) < Len(broker.inbox[n])
           /\ LET decoded == Decode(Head(broker.inbox[n]).bytes)
                  event == from_str_and_payload(Head(broker.inbox[n]).channel, decoded.val)
              IN  /\ decoded.ok
                  /\ get_emitter_id(decoded.val) # unique_id(n)
                  /\ event.ok
                  /\ event.kind \in {"New", "Modified"}
                  /\ local_hash(fs[n], event.path).ok
                  /\ local_hash(fs[n], event.path).val = event.hash)
          => (/\ fs' = fs
              /\ wq' = wq
              /\ sent' = sent
              /\ budget' = budget
              /\ broker' = [broker EXCEPT !.inbox[n] = Tail(@)]
              /\ lastSub'[n].outcome = "match")]_vars

\* a subscriber found the hash of a foreign content event equal to its file's
HashMatchSeen ==
    \E n \in Nodes :
        /\ lastSub[n].outcome = "match"
        /\ ForeignContentEvent(n)
        /\ lastSub[n].was # Absent

\* node n's watcher handles the event at the head of its queue in this step
Handles(n) == phase[n] = "running" /\ wq[n] # <<>> /\ Len(wq'[n]) < Len(wq[n])

\* C15: a step in which the watcher handles a Create, Write, Remove or Rename
\* event one of whose paths is no UTF-8 text runs no transactional block and
\* changes nothing on the server: no key, no set, no inbox, no connection; the
\* watcher stays in its loop.
NonUtf8PathIsDropped ==
    [][\A n \in Nodes :
          (/\ Handles(n)
           /\ Head(wq[n]).kind \in {"Create", "Write", "Remove", "Rename"}
           /\ \/ Head(wq[n]).path = NonUtf8Path
              \/ Head(wq[n]).kind = "Rename" /\ Head(wq[n]).path2 = NonUtf8Path)
          => (/\ broker' = broker
              /\ sent' = sent
              /\ lastPub'[n].result = "not_run"
              /\ phase'[n] = "running")]_vars

\* the watcher dropped the event of an existing file whose path is no UTF-8 text
NonUtf8Dropped ==
    \E n \in Nodes :
        /\ lastPub[n].path = NonUtf8Path
        /\ lastPub[n].kind \in {"Create", "Write"}
        /\ lastPub[n].raw \in Contents
        /\ lastPub[n].result = "not_run"
        /\ phase[n] = "running"

\* C16: a step in which the watcher handles the event of a directory (a Create or
\* Write whose path is a directory, the Remove or the Rename of a directory)
\* runs no publish operation and changes nothing on the server.
DirectoryEventsStayLocal ==
    [][\A n \in Nodes :
          (/\ Handles(n)
           /\ Head(wq[n]).origin = "user_dir"
           /\ Head(wq[n]).kind \in {"Create", "Write"} => is_dir(fs[n], Head(wq[n]).path))
          => (/\ broker' = broker
              /\ lastPub'[n].result = "not_run")]_vars

\* C19: a step in which the watcher handles an event leaves it in its receive
\* loop, whatever the event and however its publish operation ended; the watcher
\* leaves the loop only in a step that handles no event, the error of the
\* channel.
WatcherFailurePolicy ==
    [][\A n \in Nodes :
          /\ Handles(n) => phase'[n] = "running"
          /\ (phase[n] = "running" /\ phase'[n] # "running")
             => (/\ phase'[n] = "watcher_down"
                 /\ wq[n] = <<>>
                 /\ <<broker, fs, wq, lastPub>>' = <<broker, fs, wq, lastPub>>)]_vars

\* a watcher whose last event was an error of the file watcher, or whose last
\* publish operation was cancelled, is in its receive loop
WatcherSurvivedFailure ==
    \E n \in Nodes :
        /\ lastPub[n].kind = "Error" \/ lastPub[n].result = "cancelled"
        /\ lastPub[n].result \notin {"ok", "none"}
        /\ phase[n] = "running"

\* C21: a step in which the watcher's renamed_file(old, new) succeeds on a path
\* old that has its hash, its content and its membership in the store leaves the
\* values of old under the keys of new, no key of old, new and not old in
\* all_files, and every key of another path as it was.
RenameMovesStoreRecord ==
    [][\A n \in Nodes :
          (/\ Handles(n)
           /\ Head(wq[n]).kind = "Rename"
           /\ Head(wq[n]).path # Head(wq[n]).path2
           /\ lastPub'[n].result = "ok"
           /\ HasKey(to_hash_key(Head(wq[n]).path))
           /\ HasKey(to_content_key(Head(wq[n]).path))
           /\ Head(wq[n]).path \in AllFiles)
          => LET old == Head(wq[n]).path
                 new == Head(wq[n]).path2
             IN  /\ broker'.kv[to_hash_key(new)] = broker.kv[to_hash_key(old)]
                 /\ broker'.kv[to_content_key(new)] = broker.kv[to_content_key(old)]
                 /\ broker'.kv[to_hash_key(old)] = Nil
                 /\ broker'.kv[to_content_key(old)] = Nil
                 /\ broker'.sets[SET_OF_ALL_FILES_NAME] = (AllFiles \ {old}) \cup {new}
                 /\ \A p \in Paths \ {old, new} :
                        /\ broker'.kv[to_hash_key(p)] = broker.kv[to_hash_key(p)]
                        /\ broker'.kv[to_content_key(p)] = broker.kv[to_content_key(p)]]_vars

\* node n's subscriber takes the message at the head of its inbox in this step
Receives(n) ==
    /\ phase[n] = "running"
    /\ broker.inbox[n] # <<>>
    /\ Len(broker'.inbox[n]) < Len(broker.inbox[n])

\* C22: a step in which the subscriber applies a rename of an existing file old
\* to a path new whose parent directory is missing makes that directory and
\* moves the file: new holds what old held and old is absent; when the parent is
\* a directory already the file is moved and the parent stays as it is; no other
\* path changes.
RenameCreatesParent ==
    [][\A n \in Nodes :
          (/\ Receives(n)
           /\ LET event == SubscriberEvent(Head(broker.inbox[n]))
              IN  /\ event.ok
                  /\ event.kind = "Renamed"
                  /\ get_emitter_id(Decode(Head(broker.inbox[n]).bytes).val) # unique_id(n)
                  /\ event.path # event.path2
                  /\ fs[n][event.path] \in Contents
                  /\ fs[n][event.path2] # Directory
                  /\ parent(event.path2) # Root =>
                         fs[n][parent(event.path2)] \in {Absent, Directory})
          => LET old == SubscriberEvent(Head(broker.inbox[n])).path
                 new == SubscriberEvent(Head(broker.inbox[n])).path2
             IN  /\ lastSub'[n].outcome = "renamed"
                 /\ parent(new) # Root => fs'[n][parent(new)] = Directory
                 /\ fs'[n][new] = fs[n][old]
                 /\ fs'[n][old] = Absent
                 /\ \A p \in TreePaths \ {old, new, parent(new)} : fs'[n][p] = fs[n][p]]_vars

\* a subscriber moved a file into a directory that the rename had to make
RenameMadeParent ==
    \E n \in Nodes :
        /\ lastSub[n].outcome = "renamed"
        /\ HandledEvent(n).path2 = DeepPath
        /\ lastSub[n].made
        /\ fs[n][DeepPath] \in Contents
        /\ fs[n][ParentDir] = Directory
        /\ lastSub[n].was \in Contents

ReaderSeesOldOrNew ==
    [][\A n \in Nodes :
          (/\ Handles(n)
           /\ Head(wq[n]).kind \in {"Create", "Write"}
           /\ st[n].raw # Absent
           /\ lastSub[n].was # Absent
           /\ Head(wq[n]).path = HandledEvent(n).path)
          => (lastPub'[n].raw = <<>> => <<>> \in {lastSub[n].was, st[n].raw})]_vars

\* C25: a step in which the watcher's publish operation succeeds sends exactly
\* one PUBLISH; its payload decodes to the variant of the operation (NewFile for
\* Create, ModifiedFile for Write, RemovedFile for Remove, RenamedFile for
\* Rename), carries the node's own id and the path or paths of the event, and for
\* NewFile and ModifiedFile the hash that the step left under hash:<path>.
PublishTagsEvent ==
    [][\A n \in Nodes :
          (Handles(n) /\ lastPub'[n].result = "ok")
          => LET event == Head(wq[n])
                 cmds == WatcherPlan(fs[n], unique_id(n), event).cmds
                 pubs == {i \in 1..Len(cmds) : cmds[i].op = "PUBLISH"}
             IN  /\ Cardinality(pubs) = 1
                 /\ \A i \in pubs :
                      LET d == Decode(cmds[i].b)
                      IN  /\ d.ok
                          /\ d.val = lastPub'[n].payload
                          /\ d.val.emitter = unique_id(n)
                          /\ d.val.path = event.path
                          /\ d.val.variant =
                                (CASE event.kind = "Create" -> "NewFile"
                                   [] event.kind = "Write" -> "ModifiedFile"
                                   [] event.kind = "Remove" -> "RemovedFile"
                                   [] OTHER -> "RenamedFile")
                          /\ event.kind = "Rename" => d.val.path2 = event.path2
                          /\ event.kind \in {"Create", "Write"} =>
                                broker'.kv[to_hash_key(event.path)] = Decimal(d.val.hash)]_vars

\* a watcher published the NewFile event of a file it had stored
PublishedNewFile ==
    \E n \in Nodes :
        /\ lastPub[n].result = "ok"
        /\ lastPub[n].kind = "Create"
        /\ lastPub[n].payload.variant = "NewFile"
        /\ lastPub[n].changed

\* C26: a step in which a node's subscriber takes a message, whatever its kind
\* and outcome, changes no key and no set of the server and no inbox but its
\* own, from which the message is gone, and runs no publish operation.
SubscriberReadsOnly ==
    [][\A n \in Nodes :
          Receives(n)
          => (/\ broker'.kv = broker.kv
              /\ broker'.sets = broker.sets
              /\ broker'.inbox = [broker.inbox EXCEPT ![n] = Tail(@)]
              /\ lastPub' = lastPub)]_vars

\* a subscriber wrote a file whose content it fetched from a key of the store
SubscriberFetchedStoredContent ==
    \E n \in Nodes :
        /\ lastSub[n].outcome = "written"
        /\ ForeignContentEvent(n)
        /\ HasKey(to_content_key(HandledEvent(n).path))

\* C27: a step in which the watcher handles a Create or Write event whose path
\* is UTF-8 text and holds a readable file runs a transactional block, whatever
\* the store holds for the path; when no command fails and the connection is
\* not inside an earlier MULTI the block commits and leaves the compressed
\* content of the file under content:<path>.
WatcherAlwaysPublishes ==
    [][\A n \in Nodes :
          (/\ Handles(n)
           /\ Head(wq[n]).kind \in {"Create", "Write"}
           /\ Head(wq[n]).path # NonUtf8Path
           /\ fs[n][Head(wq[n]).path] \notin {Absent, Directory})
          => (/\ lastPub'[n].result \notin {"none", "not_run"}
              /\ (budget' = budget /\ ~broker.conns[take_connection(pool[n])].multi) =>
                    /\ lastPub'[n].result = "ok"
                    /\ broker'.kv[to_content_key(Head(wq[n]).path)]
                          = Compress(fs[n][Head(wq[n]).path]))]_vars

\* a watcher published a written file although the store held its hash and
\* content already
PublishedUnchangedFile ==
    \E n \in Nodes :
        /\ lastPub[n].kind = "Write"
        /\ lastPub[n].result = "ok"
        /\ ~lastPub[n].changed
        /\ HasKey(to_content_key(lastPub[n].path))

\* C28: the subscriber handles the messages of a node one at a time and in the
\* order the server delivered them: the message it begins is the oldest one
\* waiting and no write of an earlier message is in progress; while a write is
\* in progress no other message is begun, and the next change of the tree
\* completes that write
SubscriberInOrder ==
    [][\A n \in Nodes :
          /\ Receives(n) =>
                /\ st[n].raw = Absent
                /\ broker'.inbox[n] = Tail(broker.inbox[n])
                /\ lastSub'[n].channel = Head(broker.inbox[n]).channel
                /\ lastSub'[n].bytes = Head(broker.inbox[n]).bytes
          /\ st[n].raw # Absent =>
                /\ Len(broker'.inbox[n]) >= Len(broker.inbox[n])
                /\ SubSeq(broker'.inbox[n], 1, Len(broker.inbox[n])) = broker.inbox[n]
                /\ lastSub'[n].bytes = lastSub[n].bytes
                /\ lastSub'[n].channel = lastSub[n].channel
                /\ fs'[n] # fs[n] =>
                      /\ st'[n].raw = Absent
                      /\ lastSub'[n].outcome = "written"]_vars

\* a different message waits while the subscriber is inside write_file for
\* the message delivered before it
MessageWaitsForWrite ==
    \E n \in Nodes :
        /\ st[n].raw # Absent
        /\ broker.inbox[n] # <<>>
        /\ Head(broker.inbox[n]).bytes # lastSub[n].bytes

NoticesHaveNoEffect ==
    [][\A n \in Nodes :
          (Handles(n) /\ Head(wq[n]).kind \in Notices)
          => (/\ broker' = broker
              /\ fs' = fs
              /\ pool' = pool
              /\ sent' = sent
              /\ budget' = budget
              /\ wq' = [wq EXCEPT ![n] = Tail(@)]
              /\ lastPub'[n].result = "not_run"
              /\ phase'[n] = "running")]_vars

\* the watcher ignored the notice of a write to a file that exists, and a
\* rescan, and runs on
NoticeIgnored ==
    \E n \in Nodes :
        /\ phase[n] = "running"
        /\ lastPub[n].result = "not_run"
        /\ \/ lastPub[n].kind = "Rescan"
           \/ /\ lastPub[n].kind \in {"NoticeWrite", "Chmod"}
              /\ fs[n][lastPub[n].path] \notin {Absent, Directory}

ReadPairIsOneSnapshot ==
    \A n \in Nodes :
        wt[n].read.done => wt[n].read.hash = HashBytes(Decompress(wt[n].read.content))

\* C33: the sweep is idempotent: after a sweep in which every fetch and every
\* write succeeded, over a store whose records are as new_file writes them
\* and with no change of the store or of the tree since, a second sweep finds
\* the local hash of every listed path equal to the stored hash and writes no
\* file
SecondSweepWritesNothing ==
    \A n \in Nodes :
        LET c == take_connection(pool[n])
            listed == broker.sets[SET_OF_ALL_FILES_NAME]
            as_new_file_writes(p) ==
                /\ broker.kv[to_content_key(p)] # Nil
                /\ broker.kv[to_hash_key(p)]
                      = Decimal(hash_content(broker.kv[to_content_key(p)]))
            quiet(r) == r.wrote = {} /\ r.f = fs[n]
        IN  (/\ lastSweep[n].state = "ok"
             /\ lastSweep[n].fresh
             /\ budget.failures = MaxFailures
             /\ \A p \in listed : as_new_file_writes(p))
            => /\ \A p \in listed :
                     /\ local_hash(fs[n], p).ok
                     /\ get_remote_file_hash(broker, c, p, FALSE).ok
                     /\ local_hash(fs[n], p).val = get_remote_file_hash(broker, c, p, FALSE).val
               /\ quiet(synchronize_local_files_with_remote(broker, c, fs[n],
                                                            FALSE, {}, {}, {}))
====
